---- MODULE Spec2Model ----
(***************************************************************************)
(* Model of the CI helper scripts under .github/scripts:                   *)
(*   check_env_ymls_conda_present.py, validate_packages.py,                *)
(*   filter_and_validate_packages.py, validate_r_packages.py.              *)
(*                                                                         *)
(* Text is modelled as a sequence of one-character strings, so that        *)
(* stripping, splitting, searching and sorting are computed the way the    *)
(* Python code computes them.  A file is its content (a sequence of        *)
(* characters, line breaks included) or NoFile.                            *)
(***************************************************************************)
EXTENDS Integers, Sequences, FiniteSets, TLC

(***************************************************************************)
(* Characters and Python's str operations                                  *)
(***************************************************************************)

\* The characters in code-point order (Python compares strings by code point).
Ascii ==
  << "\t", "\n", " ", "!", "\"", "#", "$", "%", "&", "'", "(", ")", "*", "+",
     ",", "-", ".", "/", "0", "1", "2", "3", "4", "5", "6", "7", "8", "9",
     ":", ";", "<", "=", ">", "?", "@",
     "A", "B", "C", "D", "E", "F", "G", "H", "I", "J", "K", "L", "M",
     "N", "O", "P", "Q", "R", "S", "T", "U", "V", "W", "X", "Y", "Z",
     "[", "\\", "]", "^", "_",
     "a", "b", "c", "d", "e", "f", "g", "h", "i", "j", "k", "l", "m",
     "n", "o", "p", "q", "r", "s", "t", "u", "v", "w", "x", "y", "z",
     "{", "|", "}", "~" >>

Ord == [c \in {Ascii[i] : i \in DOMAIN Ascii} |-> CHOOSE i \in DOMAIN Ascii : Ascii[i] = c]

UpperChars == {Ascii[i] : i \in Ord["A"] .. Ord["Z"]}

\* str.lower() on one character.
LowerChar(c) == IF c \in UpperChars THEN Ascii[Ord[c] + (Ord["a"] - Ord["A"])] ELSE c

\* str.lower()
Lower(s) == [i \in DOMAIN s |-> LowerChar(s[i])]

\* str.replace(a, b) for single characters a, b
ReplaceChar(s, a, b) == [i \in DOMAIN s |-> IF s[i] = a THEN b ELSE s[i]]

\* The characters str.strip() removes.
WhiteSpace == {" ", "\t", "\n"}

\* str.lstrip(chars)
LStripChars(s, cs) ==
  IF \A i \in DOMAIN s : s[i] \in cs THEN << >>
  ELSE SubSeq(s, CHOOSE i \in DOMAIN s :
                   s[i] \notin cs /\ \A j \in 1 .. i - 1 : s[j] \in cs, Len(s))

\* str.rstrip(chars)
RStripChars(s, cs) ==
  IF \A i \in DOMAIN s : s[i] \in cs THEN << >>
  ELSE SubSeq(s, 1, CHOOSE i \in DOMAIN s :
                      s[i] \notin cs /\ \A j \in i + 1 .. Len(s) : s[j] \in cs)

\* str.strip(chars)
StripChars(s, cs) == RStripChars(LStripChars(s, cs), cs)

\* str.strip(), str.lstrip()
Strip(s) == StripChars(s, WhiteSpace)
LStrip(s) == LStripChars(s, WhiteSpace)

\* str.startswith(p), str.endswith(p)
StartsWith(s, p) == Len(s) >= Len(p) /\ SubSeq(s, 1, Len(p)) = p
EndsWith(s, p) == Len(s) >= Len(p) /\ SubSeq(s, Len(s) - Len(p) + 1, Len(s)) = p

\* p in s
Contains(s, p) ==
  \E i \in 1 .. Len(s) - Len(p) + 1 : SubSeq(s, i, i + Len(p) - 1) = p

\* Index of the first character of s that is in cs; 0 when there is none.
FirstIn(s, cs) ==
  IF \A i \in DOMAIN s : s[i] \notin cs THEN 0
  ELSE CHOOSE i \in DOMAIN s : s[i] \in cs /\ \A j \in 1 .. i - 1 : s[j] \notin cs

\* s.split(c)[0], s.split(c, 1)[0] and re.split('[cs]', s)[0]: the text before
\* the first character of cs (all of s when there is none).
Before(s, cs) ==
  IF FirstIn(s, cs) = 0 THEN s ELSE SubSeq(s, 1, FirstIn(s, cs) - 1)

\* s.split(c): the pieces between the occurrences of character c.
RECURSIVE Split(_, _)
Split(s, c) ==
  IF FirstIn(s, {c}) = 0 THEN << s >>
  ELSE << SubSeq(s, 1, FirstIn(s, {c}) - 1) >>
         \o Split(SubSeq(s, FirstIn(s, {c}) + 1, Len(s)), c)

\* Iterating a text file: the lines, each with its line break (the last line
\* has none when the file does not end with one).
RECURSIVE FileLines(_)
FileLines(content) ==
  IF content = << >> THEN << >>
  ELSE IF FirstIn(content, {"\n"}) = 0 THEN << content >>
  ELSE << SubSeq(content, 1, FirstIn(content, {"\n"})) >>
         \o FileLines(SubSeq(content, FirstIn(content, {"\n"}) + 1, Len(content)))

\* s < t in Python's string order (code points, a proper prefix first).
StrLess(s, t) ==
  \/ Len(s) < Len(t) /\ SubSeq(t, 1, Len(s)) = s
  \/ \E i \in 1 .. (IF Len(s) < Len(t) THEN Len(s) ELSE Len(t)) :
        /\ SubSeq(s, 1, i - 1) = SubSeq(t, 1, i - 1)
        /\ Ord[s[i]] < Ord[t[i]]

\* sorted(S) for a finite set of strings.
RECURSIVE Sorted(_)
Sorted(S) ==
  IF S = {} THEN << >>
  ELSE LET m == CHOOSE x \in S : \A y \in S \ {x} : StrLess(x, y)
       IN << m >> \o Sorted(S \ {m})

\* ''.join(seq of strings)
RECURSIVE Concat(_)
Concat(ss) == IF ss = << >> THEN << >> ELSE Head(ss) \o Concat(Tail(ss))

\* The set of elements of a sequence.
Range(f) == {f[i] : i \in DOMAIN f}


(***************************************************************************)
(* Values that are not text                                                *)
(***************************************************************************)

\* The content of a path at which no file exists: of a text file, of
\* build.log and of a YAML file.  (A text is a list of single characters, so
\* NoFile is no text.)
NoFile == << "NoFile" >>
NoLog == << [tag |-> "NoFile", label |-> "", n |-> 0, names |-> << >>] >>
NoBase == [kind |-> "NoFile"]

\* What yaml.safe_load gives for an env file or the base environment file:
\*   [kind |-> "error"]                       it raised yaml.YAMLError
\*   [kind |-> "data", hasDeps, deps]         a mapping (or an empty document);
\*      hasDeps says whether it has the key 'dependencies', deps is that list.
\* An entry of deps is [t |-> "str", s |-> text], or [t |-> "pip", items |-> list
\* of texts] for a mapping with the key 'pip', or [t |-> "other"].
YamlError == [kind |-> "error"]
YamlData(hasDeps, deps) == [kind |-> "data", hasDeps |-> hasDeps, deps |-> deps]
DepStr(s) == [t |-> "str", s |-> s]
DepPip(items) == [t |-> "pip", items |-> items]

(***************************************************************************)
(* filter_and_validate_packages.py: the parsers                            *)
(***************************************************************************)

\* re.split(r'[>=<~!]', dep)[0].strip()
SplitPkgName(dep) == Strip(Before(dep, {">", "=", "<", "~", "!"}))

\* The package names one env file declares (the body of the loop of
\* parse_env_files): string entries and the entries of a nested pip list,
\* empty names left out.
EnvFilePackages(doc) ==
  IF ~doc.hasDeps THEN {}
  ELSE UNION { IF doc.deps[i].t = "str"
                 THEN {SplitPkgName(doc.deps[i].s)} \ { << >> }
               ELSE IF doc.deps[i].t = "pip"
                 THEN {SplitPkgName(doc.deps[i].items[j]) :
                          j \in DOMAIN doc.deps[i].items} \ { << >> }
               ELSE {} : i \in DOMAIN doc.deps }

\* parse_env_files: packages_by_file, as the list of its items in insertion
\* order (the glob sorted by name); a file that raised YAMLError has no item.
RECURSIVE ParseEnvFiles(_)
ParseEnvFiles(files) ==
  IF files = << >> THEN << >>
  ELSE (IF Head(files).doc.kind = "error" THEN << >>
        ELSE << [fname |-> Head(files).name,
                 pkgs |-> EnvFilePackages(Head(files).doc)] >>)
       \o ParseEnvFiles(Tail(files))

\* The env files parse_env_files reports to standard error.
EnvFileErrors(files) ==
  {files[i].name : i \in {j \in DOMAIN files : files[j].doc.kind = "error"}}

\* all_env_packages: the union of the values of packages_by_file.
AllEnvPackages(byFile) == UNION {byFile[i].pkgs : i \in DOMAIN byFile}

\* The scan of a fetched recipe (meta.yaml): the '- ' entries collected from
\* the run: section of requirements:.  st is the loop's state
\* [inReq, inRun, deps]; the loop ends at the break or after the last line.
RECURSIVE ScanRecipe(_, _)
ScanRecipe(lines, st) ==
  IF lines = << >> THEN st.deps
  ELSE LET line == Head(lines)
           stripped == Strip(line)
           pkg == Strip(LStripChars(stripped, {"-", " "}))
           pkg_name == Strip(Before(pkg, {">", "=", "<", "~", "!", " ", "\t", "\n"}))
       IN IF StartsWith(stripped, <<"r","e","q","u","i","r","e","m","e","n","t","s",":">>)
            THEN ScanRecipe(Tail(lines), [st EXCEPT !.inReq = TRUE])
          ELSE IF st.inReq /\ StartsWith(stripped, <<"r","u","n",":">>)
            THEN ScanRecipe(Tail(lines), [st EXCEPT !.inRun = TRUE])
          ELSE IF /\ st.inRun /\ stripped # << >>
                  /\ ~StartsWith(stripped, <<"-">>) /\ ~StartsWith(stripped, <<"#">>)
                  /\ Contains(stripped, <<":">>) /\ ~StartsWith(line, <<" "," ">>)
            THEN st.deps
          ELSE IF st.inRun /\ StartsWith(stripped, <<"-">>)
                  /\ pkg_name # << >> /\ ~StartsWith(pkg_name, <<"{">>)
            THEN ScanRecipe(Tail(lines), [st EXCEPT !.deps = @ \cup {pkg_name}])
          ELSE ScanRecipe(Tail(lines), st)

RecipeDependencies(content) ==
  ScanRecipe(Split(content, "\n"), [inReq |-> FALSE, inRun |-> FALSE, deps |-> {}])

PangeoNotebook == <<"p","a","n","g","e","o","-","n","o","t","e","b","o","o","k">>
PangeoDask == <<"p","a","n","g","e","o","-","d","a","s","k">>

\* No hardcoded dependencies: a failed fetch gives the empty set.
MutFallbackDependencies(package_name) == {}

\* The hardcoded dependencies used when the fetch fails.
FallbackDependencies(package_name) ==
  IF package_name = PangeoNotebook
    THEN { <<"p","a","n","g","e","o","-","d","a","s","k">>, <<"d","a","s","k","-","l","a","b","e","x","t","e","n","s","i","o","n">>, <<"i","p","y","w","i","d","g","e","t","s">>,
           <<"j","u","p","y","t","e","r","-","s","e","r","v","e","r","-","p","r","o","x","y">>, <<"j","u","p","y","t","e","r","h","u","b","-","s","i","n","g","l","e","u","s","e","r">>,
           <<"j","u","p","y","t","e","r","l","a","b">>, <<"n","b","g","i","t","p","u","l","l","e","r">> }
  ELSE IF package_name = PangeoDask
    THEN { <<"d","a","s","k">>, <<"d","i","s","t","r","i","b","u","t","e","d">>, <<"d","a","s","k","-","g","a","t","e","w","a","y">> }
  ELSE {}

\* The requests one call of fetch_pangeo_feedstock_dependencies makes: the
\* one urlopen of its try block, which no loop encloses.
UrlOpens(package_name) == << package_name >>

\* fetch_pangeo_feedstock_dependencies.  response is what urlopen gave: NoFile
\* when it raised (no network, HTTP error, timeout), else the recipe's text.
FetchPangeoFeedstockDependencies(package_name, response) ==
  IF response = NoFile THEN FallbackDependencies(package_name)
  ELSE RecipeDependencies(response)

\* all_base_packages as collected by the loop of parse_base_environment:
\* string entries other than python and pip, and nested pip entries.
BaseFilePackages(doc) ==
  IF ~doc.hasDeps THEN {}
  ELSE UNION { IF doc.deps[i].t = "str"
                 THEN {SplitPkgName(doc.deps[i].s)} \ { << >>, <<"p","y","t","h","o","n">>, <<"p","i","p">> }
               ELSE IF doc.deps[i].t = "pip"
                 THEN {SplitPkgName(doc.deps[i].items[j]) :
                          j \in DOMAIN doc.deps[i].items} \ { << >> }
               ELSE {} : i \in DOMAIN doc.deps }

\* Whether parse_base_environment reaches its two fetches: the base
\* environment file exists and parses.
BaseFetches(base) == base # NoBase /\ base.kind # "error"

\* parse_base_environment: (pangeo_notebook_packages, pangeo_dask_packages,
\* other_base_packages).  nbResp and daskResp are the two responses.
ParseBaseEnvironment(base, nbResp, daskResp) ==
  IF ~BaseFetches(base) THEN [nb |-> {}, dask |-> {}, other |-> {}]
  ELSE LET nb == FetchPangeoFeedstockDependencies(PangeoNotebook, nbResp)
           dask == FetchPangeoFeedstockDependencies(PangeoDask, daskResp)
       IN [nb |-> nb, dask |-> dask,
           other |-> ((BaseFilePackages(base) \ {PangeoNotebook, PangeoDask}) \ nb) \ dask]

\* A dict from package name to text, as a function; the empty dict.
EmptyDict == [n \in {} |-> << >>]

\* d[k] = v
DictSet(d, k, v) == [n \in DOMAIN d \cup {k} |-> IF n = k THEN v ELSE d[n]]

\* The words that mark a comment of the pinned manifest as a section header.
SectionWords == { <<"p","a","c","k","a","g","e","s"," ","f","r","o","m">>, <<"f","e","e","d","s","t","o","c","k">>, <<"e","n","v","i","r","o","n","m","e","n","t">> }

\* A package line of the pinned manifest: it has '=' and is not a comment.
IsPackageLine(line) ==
  Contains(Strip(line), <<"=">>) /\ ~StartsWith(Strip(line), <<"#">>)

\* The package name of a package line: the text before the first '='.
PinnedLineName(line) == Strip(Before(Strip(line), {"="}))

\* Every comment or blank line taken as header.
MutIsHeaderLine(line) == StartsWith(Strip(line), <<"#">>) \/ Strip(line) = << >>

\* A line read_pinned_packages keeps as header while in_header holds: a
\* comment or blank line with none of the section words.
IsHeaderLine(line) ==
  /\ StartsWith(Strip(line), <<"#">>) \/ Strip(line) = << >>
  /\ \A w \in SectionWords : ~Contains(Lower(Strip(line)), w)

\* The loop of read_pinned_packages over the lines of the file; st is
\* [packages, header_lines, in_header].
RECURSIVE ReadPinnedLoop(_, _)
ReadPinnedLoop(lines, st) ==
  IF lines = << >> THEN st
  ELSE LET line == Head(lines)
       IN IF IsPackageLine(line)
            THEN ReadPinnedLoop(Tail(lines),
                   [st EXCEPT !.in_header = FALSE,
                              !.packages =
                                 IF PinnedLineName(line) # << >>
                                   THEN DictSet(@, PinnedLineName(line),
                                                RStripChars(line, {"\n"}))
                                 ELSE @])
          ELSE IF st.in_header /\ IsHeaderLine(line)
            THEN ReadPinnedLoop(Tail(lines),
                   [st EXCEPT !.header_lines = Append(@, line)])
          ELSE ReadPinnedLoop(Tail(lines), st)

\* read_pinned_packages of filter_and_validate_packages.py:
\* [packages: name -> full line, header_lines].
ReadPinnedPackages(content) ==
  ReadPinnedLoop(FileLines(content),
                 [packages |-> EmptyDict, header_lines |-> << >>, in_header |-> TRUE])

\* The titles of the four sections of the rewritten manifest.
TitleNotebook == <<"#"," ","P","a","c","k","a","g","e","s"," ","f","r","o","m"," ","p","a","n","g","e","o","-","n","o","t","e","b","o","o","k"," ","f","e","e","d","s","t","o","c","k">>
TitleDask == <<"#"," ","P","a","c","k","a","g","e","s"," ","f","r","o","m"," ","p","a","n","g","e","o","-","d","a","s","k"," ","f","e","e","d","s","t","o","c","k">>
TitleOther == <<"#"," ","O","t","h","e","r"," ","p","a","c","k","a","g","e","s"," ","f","r","o","m"," ","p","y","-","r","o","c","k","e","t","-","b","a","s","e"," ","e","n","v","i","r","o","n","m","e","n","t",".","y","a","m","l">>
TitleEnv == <<"#"," ","P","a","c","k","a","g","e","s"," ","f","r","o","m"," ","e","n","v","i","r","o","n","m","e","n","t","/","e","n","v","-","*",".","y","m","l"," ","f","i","l","e","s">>

\* The lines of one section, names descending.
MutSectionBody(d) ==
  Concat([i \in 1 .. Cardinality(DOMAIN d) |->
            d[Sorted(DOMAIN d)[Cardinality(DOMAIN d) + 1 - i]] \o <<"\n">>])

\* The lines of one section: the full line of each name, names ascending.
SectionBody(d) ==
  Concat([i \in 1 .. Cardinality(DOMAIN d) |-> d[Sorted(DOMAIN d)[i]] \o <<"\n">>])

\* A section whose lines are written with a digit added to the pin.
MutWriteSection(title, d) ==
  IF DOMAIN d = {} THEN << >>
  ELSE <<"\n">> \o title \o <<"\n">>
         \o Concat([i \in 1 .. Cardinality(DOMAIN d) |-> d[Sorted(DOMAIN d)[i]] \o <<"0", "\n">>])

\* One section as write_filtered_packages writes it: nothing for an empty
\* dict, else a blank line, the title and the lines.
WriteSection(title, d) ==
  IF DOMAIN d = {} THEN << >>
  ELSE <<"\n">> \o title \o <<"\n">> \o SectionBody(d)

\* write_filtered_packages: the new content of the pinned manifest.
WriteFilteredPackages(header_lines, pangeo_notebook_packages, pangeo_dask_packages, other_base_packages, env_packages) ==
  Concat(header_lines)
    \o WriteSection(TitleNotebook, pangeo_notebook_packages)
    \o WriteSection(TitleDask, pangeo_dask_packages)
    \o WriteSection(TitleOther, other_base_packages)
    \o WriteSection(TitleEnv, env_packages)

\* The filter loops of main: the pinned lines of the names of a set.
FilterPinned(names, all_pinned_packages) ==
  [n \in names \cap DOMAIN all_pinned_packages |-> all_pinned_packages[n]]

(***************************************************************************)
(* build.log                                                               *)
(***************************************************************************)

\* build.log is kept as the list of the items written to it, one per
\* f.write that carries data: the report's title, its counts, its status,
\* and, per missing package, the package and its 'Found in:' sources.
LogItem(tag, label, n, names) == [tag |-> tag, label |-> label, n |-> n, names |-> names]

\* The files of packages_by_file that declare pkg, in order.
\* Every env file, whether it has the package or not.
MutSourcesOf(pkg, byFile) == [i \in DOMAIN byFile |-> byFile[i].fname]

RECURSIVE SourcesOf(_, _)
SourcesOf(pkg, byFile) ==
  IF byFile = << >> THEN << >>
  ELSE (IF pkg \in Head(byFile).pkgs THEN << Head(byFile).fname >> ELSE << >>)
       \o SourcesOf(pkg, Tail(byFile))

BaseSourceName == <<"p","y","-","r","o","c","k","e","t","-","b","a","s","e"," ","e","n","v","i","r","o","n","m","e","n","t",".","y","a","m","l">>

\* The two lines write_build_log writes per missing package.
PyMissingItems(pkg, byFile) ==
  << LogItem("missing", "", 0, << pkg >>),
     LogItem("found_in", "", 0,
             IF SourcesOf(pkg, byFile) # << >> THEN SourcesOf(pkg, byFile)
             ELSE << BaseSourceName >>) >>

RECURSIVE PyMissingReport(_, _)
PyMissingReport(pkgs, byFile) ==
  IF pkgs = << >> THEN << >>
  ELSE PyMissingItems(Head(pkgs), byFile) \o PyMissingReport(Tail(pkgs), byFile)

\* write_build_log: the report that replaces build.log.
WriteBuildLog(success, missing_packages, byFile, total_pangeo_notebook, total_pangeo_dask, total_other_base, total_env_packages, total_pinned) ==
  << LogItem("title", "Python Package Validation Report", 0, << >>),
     LogItem("count", "Packages from pangeo-notebook feedstock", total_pangeo_notebook, << >>),
     LogItem("count", "Packages from pangeo-dask feedstock", total_pangeo_dask, << >>),
     LogItem("count", "Other packages from py-rocket-base", total_other_base, << >>),
     LogItem("count", "Total packages from py-rocket-base",
             total_pangeo_notebook + total_pangeo_dask + total_other_base, << >>),
     LogItem("count", "Total unique packages in env-*.yml files", total_env_packages, << >>),
     LogItem("count", "Total packages in filtered packages-python-pinned.yaml",
             total_pinned, << >>) >>
  \o (IF success THEN << LogItem("status", "SUCCESS", 0, << >>) >>
      ELSE << LogItem("status", "FAILED", 0, << >>) >>
           \o PyMissingReport(Sorted(missing_packages), byFile)
           \o << LogItem("count", "Total missing packages",
                         Cardinality(missing_packages), << >>) >>)
  \o << LogItem("end", "Python", 0, << >>) >>

(***************************************************************************)
(* check_env_ymls_conda_present.py                                         *)
(***************************************************************************)

\* Lower-case and underscores to hyphens, the blanks kept.
MutNormalizeName(name) == ReplaceChar(Lower(name), "_", "-")

\* normalize_name: strip, lower-case, underscores to hyphens.
NormalizeName(name) == ReplaceChar(Lower(Strip(name)), "_", "-")

\* The operator pattern without != and ~=.
MutOperators == { <<"=","=">>, <<">","=">>, <<"<","=">>, <<"=">>, <<">">>, <<"<">> }

\* The alternatives of the operator pattern of extract_name.
Operators == { <<"=","=">>, <<">","=">>, <<"<","=">>, <<"!","=">>, <<"~","=">>, <<"=">>, <<">">>, <<"<">> }

\* re.search of the operator pattern: the start of the leftmost match, 0
\* when there is none.
SearchOperator(s) ==
  LET hits == {i \in DOMAIN s : \E op \in Operators : StartsWith(SubSeq(s, i, Len(s)), op)}
  IN IF hits = {} THEN 0 ELSE CHOOSE i \in hits : \A j \in hits : i <= j

\* extract_name: cut a '#' comment, strip blanks then quotes, take the text
\* before the first operator, normalize.
ExtractName(dep) ==
  LET s == StripChars(StripChars(Strip(Before(dep, {"#"})), {"'"}), {"\""})
  IN IF SearchOperator(s) # 0
       THEN NormalizeName(Strip(SubSeq(s, 1, SearchOperator(s) - 1)))
     ELSE NormalizeName(Strip(s))

\* The characters of a key of KEY_RE: [A-Za-z0-9_-].
KeyChars ==
  {Ascii[i] : i \in Ord["A"] .. Ord["Z"]} \cup {Ascii[i] : i \in Ord["a"] .. Ord["z"]}
    \cup {Ascii[i] : i \in Ord["0"] .. Ord["9"]} \cup {"_", "-"}

\* len(line) - len(line.lstrip())
Indent(line) == Len(line) - Len(LStrip(line))

\* KEY_RE.match(line).group(1): the key of a 'key:' line, << >> when the
\* line does not match.
KeyOf(line) ==
  LET body == LStrip(line)
      n == IF \A i \in DOMAIN body : body[i] \in KeyChars THEN Len(body)
           ELSE (CHOOSE i \in DOMAIN body :
                    body[i] \notin KeyChars /\ \A j \in 1 .. i - 1 : body[j] \in KeyChars) - 1
      rest == LStrip(SubSeq(body, n + 1, Len(body)))
  IN IF n >= 1 /\ StartsWith(rest, <<":">>) THEN SubSeq(body, 1, n) ELSE << >>

\* DEP_RE.match(line): a '-', at least one blank, at least one more character.
IsDepLine(line) ==
  LET body == LStrip(line)
  IN /\ Len(body) >= 3 /\ body[1] = "-" /\ body[2] \in WhiteSpace

\* DEP_RE.match(line).group(1).strip()
DepItem(line) == Strip(Tail(LStrip(line)))

\* The loop of parse_conda_deps_only; st is
\* [deps, in_dependencies, in_pip_block, pip_indent] (pip_indent -1 is None).
RECURSIVE CondaDepsLoop(_, _)
CondaDepsLoop(lines, st) ==
  IF lines = << >> THEN st.deps
  ELSE LET line == Head(lines)
           rest == Tail(lines)
           leave == st.in_pip_block /\ st.pip_indent # -1 /\ Indent(line) <= st.pip_indent
       IN IF Strip(line) = << >> \/ StartsWith(LStrip(line), <<"#">>)
            THEN CondaDepsLoop(rest, st)
          ELSE IF KeyOf(line) # << >> /\ Indent(line) = 0
            THEN CondaDepsLoop(rest,
                   [st EXCEPT !.in_dependencies = (KeyOf(line) = <<"d","e","p","e","n","d","e","n","c","i","e","s">>),
                              !.in_pip_block = FALSE, !.pip_indent = -1])
          ELSE IF ~st.in_dependencies \/ ~IsDepLine(line)
            THEN CondaDepsLoop(rest, st)
          ELSE IF DepItem(line) = <<"p","i","p",":">>
            THEN CondaDepsLoop(rest,
                   [st EXCEPT !.in_pip_block = TRUE, !.pip_indent = Indent(line)])
          ELSE IF st.in_pip_block /\ ~leave
            THEN CondaDepsLoop(rest, st)
          ELSE CondaDepsLoop(rest,
                 [st EXCEPT !.in_pip_block = IF leave THEN FALSE ELSE @,
                            !.pip_indent = IF leave THEN -1 ELSE @,
                            !.deps = IF ExtractName(DepItem(line)) # << >>
                                       THEN @ \cup {ExtractName(DepItem(line))} ELSE @])

\* parse_conda_deps_only, on the text of an env file.
ParseCondaDepsOnly(text) ==
  CondaDepsLoop(Split(RStripChars(text, {"\n"}), "\n"),
                [deps |-> {}, in_dependencies |-> FALSE,
                 in_pip_block |-> FALSE, pip_indent |-> -1])
    \ { <<"p","i","p">> }

\* required: the union over the env files.
CondaRequired(files) == UNION {ParseCondaDepsOnly(files[i].text) : i \in DOMAIN files}

\* conda_list_json: the normalized names of the records that have a name.
CondaListJson(names) == {NormalizeName(names[i]) : i \in {j \in DOMAIN names : names[j] # << >>}}

(***************************************************************************)
(* validate_packages.py                                                    *)
(***************************************************************************)

\* parse_pinned_packages: the text before the first '=' of every line that
\* is neither blank nor a comment.
ParsePinnedPackages(content) ==
  LET lines == FileLines(content)
  IN {Strip(Before(Strip(lines[i]), {"="})) :
        i \in {j \in DOMAIN lines :
                 Strip(lines[j]) # << >> /\ ~StartsWith(Strip(lines[j]), <<"#">>)}}
       \ { << >> }

\* The two lines main prints per missing package.
RECURSIVE StdoutMissingReport(_, _)
StdoutMissingReport(pkgs, byFile) ==
  IF pkgs = << >> THEN << >>
  ELSE << LogItem("missing", "", 0, << Head(pkgs) >>),
          LogItem("found_in", "", 0, SourcesOf(Head(pkgs), byFile)) >>
       \o StdoutMissingReport(Tail(pkgs), byFile)

(***************************************************************************)
(* validate_r_packages.py                                                  *)
(***************************************************************************)

QuoteChars == {"\"", "'"}

\* The index of the first character of s at or after i that is not in cs;
\* Len(s) + 1 when there is none.
SkipChars(s, i, cs) ==
  IF \A j \in i .. Len(s) : s[j] \in cs THEN Len(s) + 1
  ELSE CHOOSE j \in i .. Len(s) : s[j] \notin cs /\ \A k \in i .. j - 1 : s[k] \in cs

\* The index of the first character of s at or after i that is in cs; 0 when
\* there is none.
FindChar(s, i, cs) ==
  IF \A j \in i .. Len(s) : s[j] \notin cs THEN 0
  ELSE CHOOSE j \in i .. Len(s) : s[j] \in cs /\ \A k \in i .. j - 1 : s[k] \notin cs

\* A match at position i of   fname \s* \( \s* ["']  : the index just after
\* the opening quote, 0 when there is no match.
MatchCallQuote(s, i, fname) ==
  LET j == SkipChars(s, i + Len(fname), WhiteSpace)
      k == SkipChars(s, j + 1, WhiteSpace)
  IN IF /\ i + Len(fname) - 1 <= Len(s) /\ SubSeq(s, i, i + Len(fname) - 1) = fname
        /\ j <= Len(s) /\ s[j] = "("
        /\ k <= Len(s) /\ s[k] \in QuoteChars
       THEN k + 1 ELSE 0

\* A match at position i of   fname \s* \( \s* ["'] ([^"']+) ["']  :
\* [end, name] with the index of the closing quote and group 1; end = 0
\* when there is no match.
MatchQuotedCall(s, i, fname) ==
  LET b == MatchCallQuote(s, i, fname)
      e == IF b = 0 THEN 0 ELSE FindChar(s, b, QuoteChars)
  IN IF b # 0 /\ e > b THEN [end |-> e, name |-> SubSeq(s, b, e - 1)]
     ELSE [end |-> 0, name |-> << >>]

\* A match at position i of the install_github pattern
\*   remotes::install_github \s* \( \s* ["'] ([^/]+) / ([^"'@]+)  :
\* [end, name] with group 2 (the repository); end = 0 when there is no match.
InstallGithub == <<"r","e","m","o","t","e","s",":",":","i","n","s","t","a","l","l","_","g","i","t","h","u","b">>
MatchGithub(s, i) ==
  LET b == MatchCallQuote(s, i, InstallGithub)
      f == IF b = 0 THEN 0 ELSE FindChar(s, b, {"/"})
      e == IF f = 0 THEN 0 ELSE SkipChars(s, f + 1, Range(Ascii) \ (QuoteChars \cup {"@"}))
  IN IF b # 0 /\ f > b /\ e > f + 1 THEN [end |-> e - 1, name |-> SubSeq(s, f + 1, e - 1)]
     ELSE [end |-> 0, name |-> << >>]

\* re.findall(r'["\']([^"\']+)["\']', g) from position i, as a set.
RECURSIVE QuotedNames(_, _)
QuotedNames(g, i) ==
  LET b == FindChar(g, i, QuoteChars)
      e == FindChar(g, b + 1, QuoteChars)
  IN IF b = 0 THEN {}
     ELSE IF e > b + 1 THEN {SubSeq(g, b + 1, e - 1)} \cup QuotedNames(g, e + 1)
     ELSE QuotedNames(g, b + 1)

\* A match at position i of the vector pattern  c \s* \( \s* ([^)]+) \s* \)  :
\* [end, group] with the index of the closing parenthesis and group 1; end = 0
\* when there is no match.  When only blanks stand between the parentheses,
\* the group is the last of them.
MatchVector(s, i) ==
  LET j == SkipChars(s, i + 1, WhiteSpace)
      k == SkipChars(s, j + 1, WhiteSpace)
      e == FindChar(s, j + 1, {")"})
  IN IF s[i] = "c" /\ j <= Len(s) /\ s[j] = "(" /\ e # 0 /\ (e > k \/ k > j + 1)
       THEN [end |-> e, group |-> IF e > k THEN SubSeq(s, k, e - 1) ELSE SubSeq(s, e - 1, e - 1)]
     ELSE [end |-> 0, group |-> << >>]

\* The names of the quoted elements of every c(...) vector, scanning from i.
RECURSIVE VectorPackages(_, _)
VectorPackages(s, i) ==
  LET b == FindChar(s, i, {"c"})
  IN IF b = 0 THEN {}
     ELSE IF MatchVector(s, b).end # 0
       THEN QuotedNames(MatchVector(s, b).group, 1)
              \cup VectorPackages(s, MatchVector(s, b).end + 1)
     ELSE VectorPackages(s, b + 1)

\* The repositories of every remotes::install_github call, scanning from i.
RECURSIVE GithubPackages(_, _)
GithubPackages(s, i) ==
  LET b == FindChar(s, i, {Head(InstallGithub)})
  IN IF b = 0 THEN {}
     ELSE IF MatchGithub(s, b).end # 0
       THEN {MatchGithub(s, b).name} \cup GithubPackages(s, MatchGithub(s, b).end + 1)
     ELSE GithubPackages(s, b + 1)

\* parse_install_r
ParseInstallR(content) == VectorPackages(content, 1) \cup GithubPackages(content, 1)

\* The words that make a continuation line look like a new command.
CommandWords == { <<"R"," ">>, <<"R","\t">>, <<"a","p","t">>, <<"s","e","t"," ">>, <<"e","x","p","o","r","t">>, <<"e","c","h","o">> }

Install2r == <<"i","n","s","t","a","l","l","2",".","r">>

\* The install2.r loop of parse_install_geospatial_content; st is
\* [packages, in_install2r].
RECURSIVE Install2rLoop(_, _)
Install2rLoop(lines, st) ==
  IF lines = << >> THEN st.packages
  ELSE LET line == Head(lines)
           stripped == Strip(line)
           pkg_name == Strip(RStripChars(stripped, {"\\"}))
           named == /\ pkg_name # << >>
                    /\ ~StartsWith(pkg_name, <<"-">>) /\ ~StartsWith(pkg_name, <<"$">>)
       IN IF Contains(line, Install2r) /\ ~StartsWith(stripped, <<"#">>)
            THEN Install2rLoop(Tail(lines), [st EXCEPT !.in_install2r = TRUE])
          ELSE IF ~st.in_install2r
            THEN Install2rLoop(Tail(lines), st)
          ELSE IF stripped = << >> \/ StartsWith(stripped, <<"#">>)
            THEN Install2rLoop(Tail(lines), [st EXCEPT !.in_install2r = FALSE])
          ELSE IF named /\ \E cmd \in CommandWords : Contains(pkg_name, cmd)
            THEN Install2rLoop(Tail(lines), [st EXCEPT !.in_install2r = FALSE])
          ELSE Install2rLoop(Tail(lines),
                 [st EXCEPT !.packages = IF named THEN @ \cup {pkg_name} ELSE @,
                            !.in_install2r = EndsWith(stripped, <<"\\">>)])

BiocInstall == <<"B","i","o","c","M","a","n","a","g","e","r",":",":","i","n","s","t","a","l","l">>

\* The arguments of every BiocManager::install call, scanning from i.
RECURSIVE BiocPackages(_, _)
BiocPackages(s, i) ==
  LET b == FindChar(s, i, {Head(BiocInstall)})
  IN IF b = 0 THEN {}
     ELSE IF MatchQuotedCall(s, b, BiocInstall).end # 0
       THEN {MatchQuotedCall(s, b, BiocInstall).name}
              \cup BiocPackages(s, MatchQuotedCall(s, b, BiocInstall).end + 1)
     ELSE BiocPackages(s, b + 1)

\* parse_install_geospatial_content
ParseInstallGeospatialContent(script_content) ==
  Install2rLoop(Split(script_content, "\n"), [packages |-> {}, in_install2r |-> FALSE])
    \cup BiocPackages(script_content, 1)

InstallVersion == <<"r","e","m","o","t","e","s",":",":","i","n","s","t","a","l","l","_","v","e","r","s","i","o","n">>

\* The package one line of packages-r-pinned.R pins: the argument of
\* remotes::install_version, else the repository of remotes::install_github;
\* {} for a blank line, a comment or anything else.
RPinnedLinePackage(line) ==
  LET stripped == Strip(line)
  IN IF StartsWith(stripped, <<"#">>) \/ stripped = << >> THEN {}
     ELSE IF MatchQuotedCall(stripped, 1, InstallVersion).end # 0
       THEN {MatchQuotedCall(stripped, 1, InstallVersion).name}
     ELSE IF MatchGithub(stripped, 1).end # 0 THEN {MatchGithub(stripped, 1).name}
     ELSE {}

\* read_pinned_packages of validate_r_packages.py
ReadRPinnedPackages(content) ==
  UNION {RPinnedLinePackage(FileLines(content)[i]) : i \in DOMAIN FileLines(content)}

InstallRSource == <<"i","n","s","t","a","l","l",".","R">>
GeospatialSource == <<"i","n","s","t","a","l","l","_","g","e","o","s","p","a","t","i","a","l",".","s","h">>

\* The two lines append_to_build_log writes per missing package.
RECURSIVE RMissingReport(_, _, _)
RMissingReport(pkgs, install_r_packages, geospatial_packages) ==
  IF pkgs = << >> THEN << >>
  ELSE << LogItem("missing", "", 0, << Head(pkgs) >>),
          LogItem("found_in", "", 0,
                  (IF Head(pkgs) \in install_r_packages THEN << InstallRSource >> ELSE << >>)
                  \o (IF Head(pkgs) \in geospatial_packages
                        THEN << GeospatialSource >> ELSE << >>)) >>
       \o RMissingReport(Tail(pkgs), install_r_packages, geospatial_packages)

\* Nothing appended.
MutAppendToBuildLog(success, missing_packages, install_r_packages, geospatial_packages, total_expected, total_pinned) == << >>

\* append_to_build_log: the report appended to build.log.
AppendToBuildLog(success, missing_packages, install_r_packages, geospatial_packages, total_expected, total_pinned) ==
  << LogItem("title", "R Package Validation Report", 0, << >>),
     LogItem("count", "Packages in install.R", Cardinality(install_r_packages), << >>),
     LogItem("count", "Packages in /rocker_scripts/install_geospatial.sh",
             Cardinality(geospatial_packages), << >>),
     LogItem("count", "Total unique R packages expected", total_expected, << >>),
     LogItem("count", "Total packages in packages-r-pinned.R", total_pinned, << >>) >>
  \o (IF success THEN << LogItem("status", "SUCCESS", 0, << >>) >>
      ELSE << LogItem("status", "FAILED", 0, << >>) >>
           \o RMissingReport(Sorted(missing_packages), install_r_packages, geospatial_packages)
           \o << LogItem("count", "Total missing packages",
                         Cardinality(missing_packages), << >>) >>)
  \o << LogItem("end", "R", 0, << >>) >>

(***************************************************************************)
(* The state: the files the scripts read and write, and the running        *)
(* process                                                                 *)
(***************************************************************************)

VARIABLES
  pinned,     \* packages-python-pinned.yaml: NoFile or its text
  buildLog,   \* build.log: NoLog or the list of items written to it
  envFiles,   \* the env-*.yml files the glob matches, sorted by name; each is
              \* [name, text, doc]: its text and what yaml.safe_load makes of it
  baseEnv,    \* base-environment.yaml: NoBase or what yaml.safe_load makes of it
  feedstock,  \* the recipe each feedstock URL serves (NoFile: unreachable)
  condaEnv,   \* the names `conda list --json` reports
  installR,   \* install.R: NoFile or its text
  pinnedR,    \* packages-r-pinned.R: NoFile or its text
  geospatial, \* the text of install_geospatial.sh piped to standard input
  script,     \* the script of the current (or last) process
  pc,         \* where its main stands; "idle" when no process runs
  loc,        \* the local variables of main
  stdout,     \* the report lines printed by the process
  stderr,     \* the diagnostics printed by the process
  steps,      \* the steps of main the process has taken, in order
  exitCode,   \* the exit status of the last finished process (-1: none yet)
  atStart,    \* the files as they were when the process started
  runs,       \* the finished processes, in order
  runsLeft,   \* how many more processes may be started
  call        \* a single call of a pure function: its argument and result

files == << pinned, buildLog, envFiles, baseEnv, feedstock, condaEnv, installR,
            pinnedR, geospatial >>
vars == << pinned, buildLog, envFiles, baseEnv, feedstock, condaEnv, installR,
           pinnedR, geospatial, script, pc, loc, stdout, stderr, steps, exitCode,
           atStart, runs, runsLeft, call >>

CheckEnv == "check_env_ymls_conda_present"
ValidatePackages == "validate_packages"
FilterAndValidate == "filter_and_validate_packages"
ValidateR == "validate_r_packages"
Scripts == {CheckEnv, ValidatePackages, FilterAndValidate, ValidateR}

\* The locals of main before it has assigned them.
NoLocals ==
  [ nb |-> {}, dask |-> {}, other |-> {},      \* the three sets of the base environment
    byFile |-> << >>,                          \* packages_by_file
    required |-> {},                           \* required / all_env_packages /
                                               \* all_target_packages / all_expected_packages
    installR |-> {}, geospatial |-> {},        \* install_r_packages, geospatial_packages
    truth |-> {},                              \* installed / pinned_packages
    packages |-> EmptyDict,                    \* all_pinned_packages
    header_lines |-> << >>,
    filtered |-> [nb |-> EmptyDict, dask |-> EmptyDict,   \* the four filtered dicts
                  other |-> EmptyDict, env |-> EmptyDict],
    written |-> {},                            \* all_filtered
    missing |-> {},                            \* missing / missing_packages
    fetched |-> << >>,                         \* the feedstocks requested, in order
    success |-> TRUE ]

\* The first step of each script's main.
FirstStep(s) ==
  CASE s = CheckEnv -> "ce_glob"
    [] s = ValidatePackages -> "vp_exists"
    [] s = FilterAndValidate -> "fv_exists"
    [] s = ValidateR -> "vr_exists"

\* A process of script s starts.
Start(s) ==
  /\ pc = "idle" /\ runsLeft > 0
  /\ script' = s /\ pc' = FirstStep(s)
  /\ loc' = NoLocals /\ stdout' = << >> /\ stderr' = {} /\ steps' = << >>
  /\ exitCode' = -1 /\ runsLeft' = runsLeft - 1
  /\ atStart' = [pinned |-> pinned, buildLog |-> buildLog,
                 installR |-> installR, pinnedR |-> pinnedR]
  /\ UNCHANGED << files, runs, call >>

\* The process ends with status code (sys.exit, or main returning); l is the
\* value of its locals and log the content of build.log at that point.
Exit(code, l, log) ==
  /\ pc' = "idle" /\ exitCode' = code
  /\ runs' = Append(runs, [script |-> script, code |-> code, loc |-> l,
                           pinned |-> pinned, buildLog |-> log,
                           steps |-> Append(steps, pc)])

\* A diagnostic printed to standard error: the message and the file it names.
Diag(msg, file) == [msg |-> msg, file |-> file]

\* The process takes the step at pc and goes on to step next.
Goto(next) == pc' = next /\ UNCHANGED << exitCode, runs >>

\* A path taken to exist whatever is there.
MutMissing(file) == FALSE

\* not path.exists()
Missing(file) == file = NoFile

\* An empty list of files taken as a match.
MutNoFilesMatched(fs) == FALSE

\* not files: the glob matched nothing.
NoFilesMatched(fs) == fs = << >>

Took == steps' = Append(steps, pc) /\ UNCHANGED << atStart, call >>

(***************************************************************************)
(* check_env_ymls_conda_present.py: main                                   *)
(***************************************************************************)

\* files = sorted(glob); no file: the error and status 2.
CeGlob ==
  /\ pc = "ce_glob" /\ Took
  /\ IF NoFilesMatched(envFiles)
       THEN /\ stderr' = stderr \cup {Diag("ERROR: No files matched", << >>)}
            /\ Exit(2, loc, buildLog)
       ELSE /\ Goto("ce_parse") /\ UNCHANGED stderr
  /\ UNCHANGED << files, script, loc, stdout, runsLeft >>

\* required |= parse_conda_deps_only(f) for every file.
CeParse ==
  /\ pc = "ce_parse" /\ Took
  /\ loc' = [loc EXCEPT !.required = CondaRequired(envFiles)]
  /\ Goto("ce_conda")
  /\ UNCHANGED << files, script, stdout, stderr, runsLeft >>

\* installed = conda_list_json(env)
CeCondaList ==
  /\ pc = "ce_conda" /\ Took
  /\ loc' = [loc EXCEPT !.truth = CondaListJson(condaEnv)]
  /\ Goto("ce_report")
  /\ UNCHANGED << files, script, stdout, stderr, runsLeft >>

\* missing = sorted(p for p in required if p not in installed)
CeMissing(required, installed) == {p \in required : p \notin installed}

\* A status that never fails the job.
MutCeStatus(missing) == 0

\* The status main returns: 1 when packages are missing, else 0.
CeStatus(missing) == IF missing # {} THEN 1 ELSE 0

\* The report and the return.
CeReport ==
  LET missing == CeMissing(loc.required, loc.truth)
      l == [loc EXCEPT !.missing = missing, !.success = (missing = {})]
  IN /\ pc = "ce_report" /\ Took
     /\ loc' = l
     /\ stdout' = IF missing # {}
                    THEN << LogItem("status", "MISSING packages:", 0, << >>) >>
                         \o [i \in 1 .. Cardinality(missing) |->
                               LogItem("missing", "", 0, << Sorted(missing)[i] >>)]
                  ELSE << LogItem("status", "OK", 0, << >>) >>
     /\ Exit(CeStatus(missing), l, buildLog)
     /\ UNCHANGED << files, script, stderr, runsLeft >>

(***************************************************************************)
(* validate_packages.py: main                                              *)
(***************************************************************************)

\* The pinned manifest must exist: else the error and status 1.
VpExists ==
  /\ pc = "vp_exists" /\ Took
  /\ IF Missing(pinned)
       THEN /\ stderr' = stderr \cup {Diag("Error: not found", <<"p","a","c","k","a","g","e","s","-","p","y","t","h","o","n","-","p","i","n","n","e","d",".","y","a","m","l">>)}
            /\ Exit(1, loc, buildLog)
       ELSE /\ Goto("vp_env") /\ UNCHANGED stderr
  /\ UNCHANGED << files, script, loc, stdout, runsLeft >>

\* The status with which main leaves when packages_by_file is empty.
VpNoEnvStatus == 0

\* packages_by_file = parse_env_files(repo_root); empty: the warning and
\* status 0.
VpParseEnv ==
  LET byFile == ParseEnvFiles(envFiles)
      l == [loc EXCEPT !.byFile = byFile]
      errs == {Diag("Error parsing", f) : f \in EnvFileErrors(envFiles)}
  IN /\ pc = "vp_env" /\ Took
     /\ loc' = l
     /\ IF byFile = << >>
          THEN /\ stderr' = stderr \cup errs \cup {Diag("Warning: No env-*.yml files found", << >>)}
               /\ Exit(VpNoEnvStatus, l, buildLog)
          ELSE /\ stderr' = stderr \cup errs
               /\ Goto("vp_pinned")
     /\ UNCHANGED << files, script, stdout, runsLeft >>

\* pinned_packages = parse_pinned_packages(pinned_file), and all_env_packages.
VpParsePinned ==
  /\ pc = "vp_pinned" /\ Took
  /\ loc' = [loc EXCEPT !.truth = ParsePinnedPackages(pinned),
                        !.required = AllEnvPackages(loc.byFile)]
  /\ Goto("vp_report")
  /\ UNCHANGED << files, script, stdout, stderr, runsLeft >>

\* The status of validate_packages: 1 when packages are missing, else 0.
VpStatus(missing) == IF missing # {} THEN 1 ELSE 0

\* missing_packages, the printed report and the exit.
VpReport ==
  LET missing == loc.required \ loc.truth
      l == [loc EXCEPT !.missing = missing, !.success = (missing = {})]
  IN /\ pc = "vp_report" /\ Took
     /\ loc' = l
     /\ stdout' = IF missing # {}
                    THEN << LogItem("status", "VALIDATION FAILED", 0, << >>) >>
                         \o StdoutMissingReport(Sorted(missing), loc.byFile)
                         \o << LogItem("count", "Total missing packages",
                                       Cardinality(missing), << >>) >>
                  ELSE << LogItem("status", "VALIDATION PASSED", 0, << >>) >>
     /\ Exit(VpStatus(missing), l, buildLog)
     /\ UNCHANGED << files, script, stderr, runsLeft >>

(***************************************************************************)
(* filter_and_validate_packages.py: main                                   *)
(***************************************************************************)

\* The pinned manifest must exist: else the error and status 1.
FvExists ==
  /\ pc = "fv_exists" /\ Took
  /\ IF Missing(pinned)
       THEN /\ stderr' = stderr \cup {Diag("Error: not found", <<"p","a","c","k","a","g","e","s","-","p","y","t","h","o","n","-","p","i","n","n","e","d",".","y","a","m","l">>)}
            /\ Exit(1, loc, buildLog)
       ELSE /\ Goto("fv_base") /\ UNCHANGED stderr
  /\ UNCHANGED << files, script, loc, stdout, runsLeft >>

\* What urlopen may give for a feedstock: the recipe served, or a failure.
Responses(package_name) == {feedstock[package_name], NoFile}

\* parse_base_environment(base_env_file), with its two fetches.
FvParseBase ==
  \E nbResp \in Responses(PangeoNotebook), daskResp \in Responses(PangeoDask) :
    LET r == ParseBaseEnvironment(baseEnv, nbResp, daskResp)
    IN /\ pc = "fv_base" /\ Took
       /\ loc' = [loc EXCEPT !.nb = r.nb, !.dask = r.dask, !.other = r.other,
                             !.fetched = IF BaseFetches(baseEnv)
                                           THEN UrlOpens(PangeoNotebook) \o UrlOpens(PangeoDask)
                                         ELSE << >>]
       /\ stderr' = stderr
            \cup (IF baseEnv = NoBase
                    THEN {Diag("Warning: not found", <<"b","a","s","e","-","e","n","v","i","r","o","n","m","e","n","t",".","y","a","m","l">>)} ELSE {})
            \cup (IF baseEnv.kind = "error"
                    THEN {Diag("Error parsing", <<"b","a","s","e","-","e","n","v","i","r","o","n","m","e","n","t",".","y","a","m","l">>)} ELSE {})
            \cup (IF BaseFetches(baseEnv) /\ nbResp = NoFile
                    THEN {Diag("Warning: Could not fetch", PangeoNotebook)} ELSE {})
            \cup (IF BaseFetches(baseEnv) /\ daskResp = NoFile
                    THEN {Diag("Warning: Could not fetch", PangeoDask)} ELSE {})
       /\ Goto("fv_env")
       /\ UNCHANGED << files, script, stdout, runsLeft >>

\* packages_by_file = parse_env_files(repo_root); when it is empty only a
\* warning is printed.  Then all_env_packages and all_target_packages.
FvParseEnv ==
  LET byFile == ParseEnvFiles(envFiles)
  IN /\ pc = "fv_env" /\ Took
     /\ loc' = [loc EXCEPT !.byFile = byFile,
                           !.required = (loc.nb \cup loc.dask \cup loc.other)
                                          \cup AllEnvPackages(byFile)]
     /\ stderr' = stderr \cup {Diag("Error parsing", f) : f \in EnvFileErrors(envFiles)}
                         \cup (IF byFile = << >>
                                 THEN {Diag("Warning: No env-*.yml files found", << >>)}
                               ELSE {})
     /\ Goto("fv_read")
     /\ UNCHANGED << files, script, stdout, runsLeft >>

\* all_pinned_packages, header_lines = read_pinned_packages(pinned_file)
FvReadPinned ==
  /\ pc = "fv_read" /\ Took
  /\ loc' = [loc EXCEPT !.packages = ReadPinnedPackages(pinned).packages,
                        !.header_lines = ReadPinnedPackages(pinned).header_lines,
                        !.truth = DOMAIN ReadPinnedPackages(pinned).packages]
  /\ Goto("fv_filter")
  /\ UNCHANGED << files, script, stdout, stderr, runsLeft >>

\* The difference that takes nothing away.
MutFvMissing(all_target_packages, all_filtered) == all_target_packages

\* missing_packages = all_target_packages - all_filtered
FvMissing(all_target_packages, all_filtered) == all_target_packages \ all_filtered

\* The four filter loops, all_filtered and missing_packages.
FvFilter ==
  LET f == [nb |-> FilterPinned(loc.nb, loc.packages),
            dask |-> FilterPinned(loc.dask, loc.packages),
            other |-> FilterPinned(loc.other, loc.packages),
            env |-> FilterPinned(AllEnvPackages(loc.byFile), loc.packages)]
      all_filtered == DOMAIN f.nb \cup DOMAIN f.dask \cup DOMAIN f.other \cup DOMAIN f.env
  IN /\ pc = "fv_filter" /\ Took
     /\ loc' = [loc EXCEPT !.filtered = f, !.written = all_filtered,
                           !.missing = FvMissing(loc.required, all_filtered)]
     /\ Goto("fv_write")
     /\ UNCHANGED << files, script, stdout, stderr, runsLeft >>

\* write_filtered_packages(...): the pinned manifest is rewritten in place.
FvWritePinned ==
  /\ pc = "fv_write" /\ Took
  /\ pinned' = WriteFilteredPackages(loc.header_lines, loc.filtered.nb, loc.filtered.dask,
                                     loc.filtered.other, loc.filtered.env)
  /\ Goto("fv_log")
  /\ UNCHANGED << buildLog, envFiles, baseEnv, feedstock, condaEnv, installR, pinnedR,
                  geospatial, script, loc, stdout, stderr, runsLeft >>

\* success = len(missing_packages) == 0
Success(missing_packages) == Cardinality(missing_packages) = 0

\* success, and write_build_log(...): build.log is replaced by the report.
FvWriteLog ==
  /\ pc = "fv_log" /\ Took
  /\ loc' = [loc EXCEPT !.success = Success(loc.missing)]
  /\ buildLog' = WriteBuildLog(Success(loc.missing), loc.missing, loc.byFile,
                               Cardinality(loc.nb), Cardinality(loc.dask),
                               Cardinality(loc.other),
                               Cardinality(AllEnvPackages(loc.byFile)),
                               Cardinality(loc.written))
  /\ Goto("fv_exit")
  /\ UNCHANGED << pinned, envFiles, baseEnv, feedstock, condaEnv, installR, pinnedR,
                  geospatial, script, stdout, stderr, runsLeft >>

\* The status of filter_and_validate_packages after its report: 0 on
\* success, and 0 on failure "so workflow continues to create PR".
FvStatus(success) == IF success THEN 0 ELSE 0

\* The printed result and sys.exit.
FvExit ==
  /\ pc = "fv_exit" /\ Took
  /\ stdout' = << LogItem("status", IF loc.success THEN "SUCCESS" ELSE "FAILED", 0, << >>) >>
  /\ Exit(FvStatus(loc.success), loc, buildLog)
  /\ UNCHANGED << files, script, loc, stderr, runsLeft >>

(***************************************************************************)
(* validate_r_packages.py: main                                            *)
(***************************************************************************)

\* install.R and packages-r-pinned.R must exist: else the error and status 1.
VrExists ==
  /\ pc = "vr_exists" /\ Took
  /\ IF Missing(installR)
       THEN /\ stderr' = stderr \cup {Diag("Error: not found", <<"i","n","s","t","a","l","l",".","R">>)}
            /\ Exit(1, loc, buildLog)
     ELSE IF Missing(pinnedR)
       THEN /\ stderr' = stderr \cup {Diag("Error: not found", <<"p","a","c","k","a","g","e","s","-","r","-","p","i","n","n","e","d",".","R">>)}
            /\ Exit(1, loc, buildLog)
     ELSE /\ Goto("vr_install_r") /\ UNCHANGED stderr
  /\ UNCHANGED << files, script, loc, stdout, runsLeft >>

\* install_r_packages = parse_install_r(install_r_path)
VrParseInstallR ==
  /\ pc = "vr_install_r" /\ Took
  /\ loc' = [loc EXCEPT !.installR = ParseInstallR(installR)]
  /\ Goto("vr_stdin")
  /\ UNCHANGED << files, script, stdout, stderr, runsLeft >>

\* geospatial_content = sys.stdin.read(); blank: the warning and an empty
\* set.  Then all_expected_packages.
VrReadStdin ==
  LET geo == IF Strip(geospatial) = << >> THEN {}
             ELSE ParseInstallGeospatialContent(geospatial)
  IN /\ pc = "vr_stdin" /\ Took
     /\ loc' = [loc EXCEPT !.geospatial = geo, !.required = loc.installR \cup geo]
     /\ stderr' = stderr \cup (IF Strip(geospatial) = << >>
                                 THEN {Diag("Warning: No content received from stdin", << >>)}
                               ELSE {})
     /\ Goto("vr_pinned")
     /\ UNCHANGED << files, script, stdout, runsLeft >>

\* pinned_packages = read_pinned_packages(pinned_file)
VrReadPinned ==
  /\ pc = "vr_pinned" /\ Took
  /\ loc' = [loc EXCEPT !.truth = ReadRPinnedPackages(pinnedR)]
  /\ Goto("vr_log")
  /\ UNCHANGED << files, script, stdout, stderr, runsLeft >>

\* missing_packages, success, and append_to_build_log(...): the report is
\* appended to build.log (created when it does not exist).
VrAppendLog ==
  LET missing == loc.required \ loc.truth
  IN /\ pc = "vr_log" /\ Took
     /\ loc' = [loc EXCEPT !.missing = missing, !.success = Success(missing)]
     /\ buildLog' = (IF buildLog = NoLog THEN << >> ELSE buildLog)
                      \o AppendToBuildLog(Success(missing), missing, loc.installR,
                                          loc.geospatial, Cardinality(loc.required),
                                          Cardinality(loc.truth))
     /\ Goto("vr_exit")
     /\ UNCHANGED << pinned, envFiles, baseEnv, feedstock, condaEnv, installR, pinnedR,
                     geospatial, script, stdout, stderr, runsLeft >>

\* A status that fails the job when packages are missing.
MutVrStatus(success) == IF success THEN 0 ELSE 1

\* The status of validate_r_packages after its report: 0 on success, and 0
\* on failure "so workflow continues to create PR".
VrStatus(success) == IF success THEN 0 ELSE 0

\* The printed result and sys.exit.
VrExit ==
  /\ pc = "vr_exit" /\ Took
  /\ stdout' = << LogItem("status", IF loc.success THEN "SUCCESS" ELSE "FAILED", 0, << >>) >>
  /\ Exit(VrStatus(loc.success), loc, buildLog)
  /\ UNCHANGED << files, script, loc, stderr, runsLeft >>

(***************************************************************************)
(* The inputs explored                                                     *)
(***************************************************************************)

MaxPinnedLines == 2   \* lines of the pinned manifest before the first run
MaxEnvFiles == 2      \* env-*.yml files the glob matches
MaxRuns == 2          \* consecutive runs of filter_and_validate_packages

\* All lists of at most n elements of S.
SeqsUpTo(S, n) == UNION {[1 .. k -> S] : k \in 0 .. n}

\* The texts made of at most n lines of a pool.
TextsOf(pool, n) == {Concat(q) : q \in SeqsUpTo(pool, n)}

\* Lines of a pinned manifest: a header comment, and pins of a, b (written
\* with blanks), a-b and p.
PinnedLinePool == { <<"#"," ","h","\n">>, <<"a","=","1","\n">>, <<" ","b"," ","=","1","\n">>, <<"a","-","b","=","3","\n">>, <<"p","=","1","\n">> }

\* Lines for the rewriting of the manifest: header comments with and without
\* a section word, two different pins of a, a pin of b.
RewriteLinePool ==
  { <<"#"," ","h","\n">>, <<"#","F","e","e","d","s","t","o","c","k","\n">>, <<"a","=","1","\n">>, <<"a","=","2","\n">>, <<" ","b"," ","=","1","\n">> }

\* env-*.yml files, each with its text and its parse.
EnvA == [ name |-> <<"e","n","v","-","a",".","y","m","l">>,
          text |-> <<"d","e","p","e","n","d","e","n","c","i","e","s",":","\n"," "," ","-"," ","a",">","=","1","\n"," "," ","-"," ","A","_","b","\n">>,
          doc |-> YamlData(TRUE, << DepStr(<<"a",">","=","1">>), DepStr(<<"A","_","b">>) >>) ]
EnvB == [ name |-> <<"e","n","v","-","b",".","y","m","l">>,
          text |-> <<"d","e","p","e","n","d","e","n","c","i","e","s",":","\n"," "," ","-"," ","b","\n"," "," ","-"," ","p","i","p",":","\n"," "," "," "," ","-"," ","p","=","=","1","\n">>,
          doc |-> YamlData(TRUE, << DepStr(<<"b">>), DepPip(<< <<"p","=","=","1">> >>) >>) ]
EnvC == [ name |-> <<"e","n","v","-","c",".","y","m","l">>,
          text |-> <<"d","e","p","e","n","d","e","n","c","i","e","s",":"," ","[","a","\n">>,
          doc |-> YamlError ]
EnvD == [ name |-> <<"e","n","v","-","d",".","y","m","l">>,
          text |-> <<"n","a","m","e",":"," ","d","\n">>,
          doc |-> YamlData(FALSE, << >>) ]
EnvPool == << EnvA, EnvB, EnvC, EnvD >>

\* The elements of a list at the indices I, in order.
RECURSIVE Pick(_, _)
Pick(list, I) ==
  IF I = {} THEN << >>
  ELSE LET m == CHOOSE i \in I : \A j \in I : i <= j
       IN << list[m] >> \o Pick(list, I \ {m})

\* The directories of at most MaxEnvFiles env files, sorted by name.
EnvDirs == {Pick(EnvPool, I) : I \in {J \in SUBSET DOMAIN EnvPool : Cardinality(J) <= MaxEnvFiles}}

\* base-environment.yaml
BaseDoc1 == YamlData(TRUE, << DepStr(<<"p","a","n","g","e","o","-","n","o","t","e","b","o","o","k","=","2","0","2","4",".","1">>),
                              DepStr(<<"p","y","t","h","o","n","=","3",".","1","1">>), DepStr(<<"a">>) >>)
BaseDoc2 == YamlData(TRUE, << DepStr(<<"b">>), DepPip(<< <<"p">> >>) >>)
BasePool == {YamlError, BaseDoc1, BaseDoc2}

\* The feedstock recipes: unreachable, or served.
FeedstockDown == [n \in {PangeoNotebook, PangeoDask} |-> NoFile]
FeedstockUp ==
  [n \in {PangeoNotebook, PangeoDask} |->
     IF n = PangeoNotebook THEN <<"r","e","q","u","i","r","e","m","e","n","t","s",":","\n"," "," ","r","u","n",":","\n"," "," "," "," ","-"," ","b"," ",">","=","1","\n"," "," "," "," ","-"," ","a","-","b","\n">>
     ELSE <<"r","e","q","u","i","r","e","m","e","n","t","s",":","\n"," "," ","r","u","n",":","\n"," "," "," "," ","-"," ","b","\n">>]

\* `conda list`
CondaPool == { << >>, << <<"a">>, <<"A","_","B">>, <<"b">> >>, << <<"A">>, <<>> >> }

\* install.R, packages-r-pinned.R and install_geospatial.sh
InstallRPool == { <<"c","(","\"","a","\"",","," ","'","B","_","x","'",")","\n">>,
                  <<"r","e","m","o","t","e","s",":",":","i","n","s","t","a","l","l","_","g","i","t","h","u","b","(","\"","u","/","g","h","\"",")","\n">> }
PinnedRPool == { <<"r","e","m","o","t","e","s",":",":","i","n","s","t","a","l","l","_","v","e","r","s","i","o","n","(","\"","a","\"",","," ","\"","1","\"",")","\n">>,
                 <<"r","e","m","o","t","e","s",":",":","i","n","s","t","a","l","l","_","v","e","r","s","i","o","n","(","\"","a","\"",")","\n","r","e","m","o","t","e","s",":",":","i","n","s","t","a","l","l","_","v","e","r","s","i","o","n","(","'","B","_","x","'",")","\n","r","e","m","o","t","e","s",":",":","i","n","s","t","a","l","l","_","g","i","t","h","u","b","(","'","u","/","g","h","@","1","'",")","\n","r","e","m","o","t","e","s",":",":","i","n","s","t","a","l","l","_","v","e","r","s","i","o","n","(","\"","s","f","\"",")","\n">> }
GeospatialPool == { << >>, <<"i","n","s","t","a","l","l","2",".","r"," ","-","e"," ","\\","\n"," "," ","s","f","\n">> }

\* A build.log left by an earlier job.
OldLog == << LogItem("title", "old", 0, << >>) >>

\* No call of a pure function.
NoCall == [fn |-> "none", arg |-> << >>, done |-> FALSE, result |-> << >>]

\* No process has run yet.
InitProcess ==
  /\ script = "none" /\ pc = "idle" /\ loc = NoLocals
  /\ stdout = << >> /\ stderr = {} /\ steps = << >> /\ exitCode = -1 /\ runs = << >>
  /\ atStart = [pinned |-> NoFile, buildLog |-> NoLog, installR |-> NoFile, pinnedR |-> NoFile]

\* A checkout with env files and a conda environment, nothing else.
CondaWorld ==
  /\ envFiles \in EnvDirs /\ condaEnv \in CondaPool
  /\ pinned = NoFile /\ buildLog = NoLog /\ baseEnv = NoBase
  /\ feedstock = FeedstockDown /\ installR = NoFile /\ pinnedR = NoFile
  /\ geospatial = << >>

\* A checkout with a pinned manifest and env files.
PinnedWorld ==
  /\ pinned \in TextsOf(PinnedLinePool, MaxPinnedLines) \cup {NoFile}
  /\ envFiles \in EnvDirs /\ buildLog \in {NoLog, OldLog}
  /\ baseEnv = NoBase /\ feedstock = FeedstockDown /\ condaEnv = << >>
  /\ installR = NoFile /\ pinnedR = NoFile /\ geospatial = << >>

\* A checkout with a pinned manifest and the base environment file.
BaseWorld ==
  /\ pinned \in TextsOf(PinnedLinePool, MaxPinnedLines)
  /\ envFiles \in {<< >>, << EnvB >>}
  /\ baseEnv \in BasePool /\ feedstock \in {FeedstockDown, FeedstockUp}
  /\ buildLog = NoLog /\ condaEnv = << >>
  /\ installR = NoFile /\ pinnedR = NoFile /\ geospatial = << >>

\* A checkout with the R files.
RWorld ==
  /\ installR \in InstallRPool \cup {NoFile} /\ pinnedR \in PinnedRPool \cup {NoFile}
  /\ geospatial \in GeospatialPool /\ buildLog \in {NoLog, OldLog}
  /\ pinned = NoFile /\ envFiles = << >> /\ baseEnv = NoBase
  /\ feedstock = FeedstockDown /\ condaEnv = << >>

(***************************************************************************)
(* One run of any of the four scripts                                      *)
(***************************************************************************)

Init ==
  /\ InitProcess /\ runsLeft = 1 /\ call = NoCall
  /\ CondaWorld \/ PinnedWorld \/ BaseWorld \/ RWorld

Next ==
  \/ \E s \in Scripts : Start(s)
  \/ CeGlob \/ CeParse \/ CeCondaList \/ CeReport
  \/ VpExists \/ VpParseEnv \/ VpParsePinned \/ VpReport
  \/ FvExists \/ FvParseBase \/ FvParseEnv \/ FvReadPinned \/ FvFilter
  \/ FvWritePinned \/ FvWriteLog \/ FvExit
  \/ VrExists \/ VrParseInstallR \/ VrReadStdin \/ VrReadPinned \/ VrAppendLog \/ VrExit

Spec == Init /\ [][Next]_vars

(***************************************************************************)
(* Consecutive runs of filter_and_validate_packages on one checkout        *)
(***************************************************************************)

InitRewrite ==
  /\ InitProcess /\ runsLeft = MaxRuns /\ call = NoCall
  /\ pinned \in TextsOf(RewriteLinePool, MaxPinnedLines)
  /\ envFiles \in {<< >>, << EnvA >>, << EnvB >>, << EnvA, EnvB >>}
  /\ \/ baseEnv = NoBase /\ feedstock = FeedstockDown
     \/ baseEnv = BaseDoc1 /\ feedstock \in {FeedstockDown, FeedstockUp}
  /\ buildLog = NoLog /\ condaEnv = << >>
  /\ installR = NoFile /\ pinnedR = NoFile /\ geospatial = << >>

NextRewrite ==
  \/ Start(FilterAndValidate)
  \/ FvExists \/ FvParseBase \/ FvParseEnv \/ FvReadPinned \/ FvFilter
  \/ FvWritePinned \/ FvWriteLog \/ FvExit

SpecRewrite == InitRewrite /\ [][NextRewrite]_vars

(***************************************************************************)
(* Runs of filter_and_validate_packages and validate_r_packages on one     *)
(* build.log                                                               *)
(***************************************************************************)

MaxLogRuns == 3

InitLog ==
  /\ InitProcess /\ runsLeft = MaxLogRuns /\ call = NoCall
  /\ pinned \in {<<"#"," ","h","\n">>, <<"a","=","1","\n">>}
  /\ envFiles \in {<< >>, << EnvA >>}
  /\ baseEnv = NoBase /\ feedstock = FeedstockDown /\ condaEnv = << >>
  /\ installR \in InstallRPool \cup {NoFile} /\ pinnedR \in PinnedRPool
  /\ geospatial \in GeospatialPool /\ buildLog \in {NoLog, OldLog}

NextLog ==
  \/ Start(FilterAndValidate) \/ Start(ValidateR)
  \/ FvExists \/ FvParseBase \/ FvParseEnv \/ FvReadPinned \/ FvFilter
  \/ FvWritePinned \/ FvWriteLog \/ FvExit
  \/ VrExists \/ VrParseInstallR \/ VrReadStdin \/ VrReadPinned \/ VrAppendLog \/ VrExit

SpecLog == InitLog /\ [][NextLog]_vars

(***************************************************************************)
(* Calls of extract_name on dependency strings                             *)
(***************************************************************************)

MaxNameLen == 2       \* characters of the name part of a dependency string

\* The characters of names: letters of both cases, underscore, hyphen, a
\* blank, and the characters extract_name treats specially besides the
\* operators: the comment mark and the two quotes.
NameChars == {"a", "B", "_", "-", " ", "#", "'", "\""}

Names == SeqsUpTo(NameChars, MaxNameLen) \ { << >> }

\* The parts of a dependency string name<op>version[=build]; op is << >> in
\* a string with no operator, build is << >> when there is none.
DepParts(name, op, version, build) ==
  [name |-> name, op |-> op, version |-> version, build |-> build]

\* The operators of a dependency string.
SupportedOperators ==
  { <<"=","=">>, <<">","=">>, <<"<","=">>, <<"!","=">>, <<"~","=">>, <<"=">>, <<">">>, <<"<">> }

DepArgs ==
  {DepParts(n, << >>, << >>, << >>) : n \in Names}
    \cup {DepParts(n, op, <<"1",".","0">>, b) : n \in Names, op \in SupportedOperators, b \in {<< >>, <<"c","p","u","*">>}}
    \cup {DepParts(<<"x","a","r","r","a","y">>, <<">","=">>, <<"2","0","2","4",".","1","0">>, << >>),
          DepParts(<<"p","y","-","x","g","b","o","o","s","t">>, <<"~","=">>, <<"2",".","1",".","1">>, <<"c","p","u","*">>)}

\* The dependency string made of the parts.
DepString(a) ==
  IF a.op = << >> THEN a.name
  ELSE a.name \o a.op \o a.version \o (IF a.build = << >> THEN << >> ELSE <<"=">> \o a.build)

\* Pairs of names for normalize_name that differ only in letter case, in
\* underscore versus hyphen and in the blanks around them.
NormArgs ==
  LET cores == SeqsUpTo({"a", "A", "_", "-"}, MaxNameLen)
      pads == {<< >>, <<" ","\t">>, <<"\n">>}
      alike == {c \in cores \X cores :
                  /\ Len(c[1]) = Len(c[2])
                  /\ \A i \in DOMAIN c[1] :
                       \/ c[1][i] = c[2][i]
                       \/ {c[1][i], c[2][i]} \in {{"a", "A"}, {"_", "-"}}}
  IN {[name |-> l[1] \o c[1] \o l[2], other |-> r[1] \o c[2] \o r[2]] :
        c \in alike, l \in pads \X pads, r \in pads \X pads}

MaxScriptLines == 3

\* Scripts for parse_install_geospatial_content, as their lines: the text of
\* a line and whether a backslash ends it.  The texts are an install2.r
\* command, package names, a flag and a variable reference.
ScriptArgs ==
  LET texts == { <<"i","n","s","t","a","l","l","2",".","r"," ","-","e">>, <<" "," ","s","f">>, <<"c","a","p","t","r">>, <<"-","n">>, <<"$","P">> }
  IN SeqsUpTo({[text |-> x, cont |-> c] : x \in texts, c \in BOOLEAN}, MaxScriptLines) \ { << >> }

\* The content of the script made of the lines.
RECURSIVE ScriptText(_)
ScriptText(lines) ==
  IF lines = << >> THEN << >>
  ELSE Head(lines).text \o (IF Head(lines).cont THEN <<" ", "\\">> ELSE << >>)
       \o (IF Tail(lines) = << >> THEN << >> ELSE <<"\n">> \o ScriptText(Tail(lines)))

MaxEnvLines == 4

\* Env files for parse_conda_deps_only, as their lines: the indentation, the
\* kind (a 'key:' line, a '- item' line or a '- pip:' line), the key or item,
\* and the comment that ends the line.
EnvLineArgs ==
  LET L(indent, kind, item, note) == [indent |-> indent, kind |-> kind, item |-> item, note |-> note]
  IN SeqsUpTo({ L(0, "key", <<"d","e","p","e","n","d","e","n","c","i","e","s">>, << >>), L(0, "key", <<"c","h","a","n","n","e","l","s">>, << >>),
                L(2, "item", <<"a">>, << >>), L(2, "item", <<"p","i","p">>, << >>),
                L(4, "item", <<"B","_","c","=","=","1">>, <<" "," ","#"," ","c">>),
                L(2, "pip", <<"p","i","p",":">>, << >>), L(2, "pip", <<"p","i","p",":">>, <<" "," ","#"," ","x">>) },
              MaxEnvLines) \ { << >> }

\* The text of the env file made of the lines.
RECURSIVE EnvText(_)
EnvText(lines) ==
  IF lines = << >> THEN << >>
  ELSE LET l == Head(lines)
       IN [i \in 1..l.indent |-> " "]
            \o (IF l.kind = "key" THEN l.item \o <<":">> ELSE <<"-", " ">> \o l.item)
            \o l.note \o <<"\n">> \o EnvText(Tail(lines))

MaxRecipeLines == 4

\* Feedstock recipes for the scan of fetch_pangeo_feedstock_dependencies, as
\* their lines: the indentation, the kind (a 'key:' line or a '- entry'
\* line) and the key or entry.
RecipeArgs ==
  LET L(indent, kind, item) == [indent |-> indent, kind |-> kind, item |-> item, note |-> << >>]
  IN SeqsUpTo({ L(0, "key", <<"r","e","q","u","i","r","e","m","e","n","t","s">>), L(0, "key", <<"t","e","s","t">>),
                L(2, "key", <<"h","o","s","t">>), L(2, "key", <<"r","u","n">>), L(2, "key", <<"r","u","n","_","c","o","n","s","t","r","a","i","n","e","d">>),
                L(4, "entry", <<"b"," ",">","=","1">>), L(4, "entry", <<"{","{"," ","x"," ","}","}">>), L(4, "entry", <<"z">>) },
              MaxRecipeLines) \ { << >> }

InitExtract ==
  /\ InitProcess /\ runsLeft = 0
  /\ \/ call \in {[fn |-> "extract_name", arg |-> a, done |-> FALSE, result |-> << >>] : a \in DepArgs}
     \/ call \in {[fn |-> "normalize_name", arg |-> a, done |-> FALSE, result |-> << >>] : a \in NormArgs}
     \/ call \in {[fn |-> "parse_install_geospatial_content", arg |-> a, done |-> FALSE, result |-> << >>] : a \in ScriptArgs}
     \/ call \in {[fn |-> "parse_conda_deps_only", arg |-> a, done |-> FALSE, result |-> << >>] : a \in EnvLineArgs}
     \/ call \in {[fn |-> "fetch_pangeo_feedstock_dependencies", arg |-> a, done |-> FALSE, result |-> << >>] : a \in RecipeArgs}
  /\ pinned = NoFile /\ buildLog = NoLog /\ envFiles = << >> /\ baseEnv = NoBase
  /\ feedstock = FeedstockDown /\ condaEnv = << >>
  /\ installR = NoFile /\ pinnedR = NoFile /\ geospatial = << >>

\* extract_name(dep) is called and returns.
ExtractNameCall ==
  /\ call.fn = "extract_name" /\ ~call.done
  /\ call' = [call EXCEPT !.done = TRUE, !.result = ExtractName(DepString(call.arg))]
  /\ UNCHANGED << files, script, pc, loc, stdout, stderr, steps, exitCode, atStart,
                  runs, runsLeft >>

\* normalize_name is called on a name, on its own result, and on the other
\* name of the pair.
NormalizeNameCall ==
  /\ call.fn = "normalize_name" /\ ~call.done
  /\ call' = [call EXCEPT !.done = TRUE,
                          !.result = [first |-> NormalizeName(call.arg.name),
                                      again |-> NormalizeName(NormalizeName(call.arg.name)),
                                      other |-> NormalizeName(call.arg.other)]]
  /\ UNCHANGED << files, script, pc, loc, stdout, stderr, steps, exitCode, atStart,
                  runs, runsLeft >>

\* parse_install_geospatial_content(script_content) is called and returns.
GeospatialCall ==
  /\ call.fn = "parse_install_geospatial_content" /\ ~call.done
  /\ call' = [call EXCEPT !.done = TRUE,
                          !.result = ParseInstallGeospatialContent(ScriptText(call.arg))]
  /\ UNCHANGED << files, script, pc, loc, stdout, stderr, steps, exitCode, atStart,
                  runs, runsLeft >>

\* parse_conda_deps_only(path) is called on an env file and returns.
CondaDepsCall ==
  /\ call.fn = "parse_conda_deps_only" /\ ~call.done
  /\ call' = [call EXCEPT !.done = TRUE, !.result = ParseCondaDepsOnly(EnvText(call.arg))]
  /\ UNCHANGED << files, script, pc, loc, stdout, stderr, steps, exitCode, atStart,
                  runs, runsLeft >>

\* fetch_pangeo_feedstock_dependencies is called, its request is answered
\* with the recipe, and it returns.
RecipeCall ==
  /\ call.fn = "fetch_pangeo_feedstock_dependencies" /\ ~call.done
  /\ call' = [call EXCEPT !.done = TRUE,
                          !.result = FetchPangeoFeedstockDependencies(PangeoNotebook, EnvText(call.arg))]
  /\ UNCHANGED << files, script, pc, loc, stdout, stderr, steps, exitCode, atStart,
                  runs, runsLeft >>

NextExtract ==
  \/ ExtractNameCall
  \/ NormalizeNameCall
  \/ GeospatialCall
  \/ CondaDepsCall
  \/ RecipeCall

SpecExtract == InitExtract /\ [][NextExtract]_vars

(***************************************************************************)
(* What a finished process has left                                        *)
(***************************************************************************)

\* A process has run to its end.
Done == pc = "idle" /\ script # "none"

\* The process has taken step s.
Passed(s) == s \in Range(steps)

\* The process has compared the required names with the ground truth and
\* reported the result.
Compared ==
  Done /\ (Passed("ce_report") \/ Passed("vp_report") \/ Passed("fv_log") \/ Passed("vr_log"))

\* The last report of a build.log: its items from the last title on.
LastReport(log) ==
  LET titles == {i \in DOMAIN log : log[i].tag = "title"}
  IN IF log = NoLog \/ titles = {} THEN << >>
     ELSE SubSeq(log, CHOOSE i \in titles : \A j \in titles : j <= i, Len(log))

\* The report of the process: printed by check_env_ymls_conda_present and
\* validate_packages, written to build.log by the two others.
Report == IF script \in {CheckEnv, ValidatePackages} THEN stdout ELSE LastReport(buildLog)

\* The packages a report lists as missing, and the status it states.
MissingIn(items) == {items[i].names[1] : i \in {j \in DOMAIN items : items[j].tag = "missing"}}
StatusIn(items) == {items[i].label : i \in {j \in DOMAIN items : items[j].tag = "status"}}

\* The statuses that state success.
GoodStatus == {"OK", "VALIDATION PASSED", "SUCCESS"}

\* The text has a package line of name p.
HasLine(text, p) ==
  \E i \in DOMAIN FileLines(text) :
    IsPackageLine(FileLines(text)[i]) /\ PinnedLineName(FileLines(text)[i]) = p

\* The names of the ground-truth listing as the listing gives them.
GroundTruthNames == IF script = CheckEnv THEN Range(condaEnv) ELSE loc.truth

\* A required input file of the process was missing when it started.
MissingInput ==
  \/ script \in {ValidatePackages, FilterAndValidate} /\ atStart.pinned = NoFile
  \/ script = ValidateR /\ (atStart.installR = NoFile \/ atStart.pinnedR = NoFile)

(***************************************************************************)
(* Properties of one run of a script (Spec)                                *)
(***************************************************************************)

\* C1: in every script the reported missing set is exactly the required
\* names that are not in the ground truth, the status and the success flag
\* state success exactly when that set is empty, and after
\* filter_and_validate_packages every target package has its line in the
\* rewritten manifest or is reported missing, never both and never neither.
C1_MissingIsRequiredMinusTruth ==
  Compared =>
    /\ MissingIn(Report) = {p \in loc.required : p \notin loc.truth}
    /\ (MissingIn(Report) = {}) <=> (\A p \in loc.required : p \in loc.truth)
    /\ StatusIn(Report) # {}
    /\ (StatusIn(Report) \subseteq GoodStatus) <=> (MissingIn(Report) = {})
    /\ script \in {FilterAndValidate, ValidateR} =>
         (loc.success <=> (MissingIn(Report) = {}))
    /\ script = FilterAndValidate =>
         \A p \in loc.required : HasLine(pinned, p) # (p \in MissingIn(Report))

\* A run of filter_and_validate_packages that wrote the line of one target
\* package and reported another one missing.
C1_Witness ==
  /\ Compared /\ script = FilterAndValidate
  /\ MissingIn(Report) # {}
  /\ \E p \in loc.required : HasLine(pinned, p)

\* C2: when packages are missing, filter_and_validate_packages and
\* validate_r_packages exit with status 0, and at the exit the last report of
\* build.log states FAILED and lists every missing package.
C2_ExitZeroAfterFailedReport ==
  (script \in {FilterAndValidate, ValidateR} /\ loc.missing # {} /\ exitCode # -1) =>
    /\ exitCode = 0
    /\ StatusIn(LastReport(buildLog)) = {"FAILED"}
    /\ MissingIn(LastReport(buildLog)) = loc.missing

\* A run of validate_r_packages with missing packages that appended its
\* report to the build.log of an earlier job and exited.
C2_Witness ==
  /\ Done /\ script = ValidateR /\ loc.missing # {}
  /\ atStart.buildLog = OldLog /\ Len(buildLog) > Len(OldLog)

\* C3 (as amended): with packages missing, validate_packages and
\* check_env_ymls_conda_present exit with status 1, and
\* filter_and_validate_packages and validate_r_packages with status 0.
C3_ExitStatusOnMissing ==
  (Done /\ loc.missing # {}) =>
    exitCode = IF script \in {ValidatePackages, CheckEnv} THEN 1 ELSE 0

\* check_env_ymls_conda_present found a required package missing and
\* returned 1.
C3_Witness ==
  Done /\ script = CheckEnv /\ loc.missing # {} /\ exitCode = 1

\* C3 (as stated): with packages missing, validate_packages is the only
\* script that exits with status 1, every other script exits with status 0.
C3_OnlyValidatePackagesExitsOne ==
  (Done /\ loc.missing # {}) =>
    /\ (exitCode = 1) <=> (script = ValidatePackages)
    /\ script # ValidatePackages => exitCode = 0

\* C4 (as amended): when no file matches the glob,
\* check_env_ymls_conda_present exits with status 2 before the conda listing
\* is read; validate_packages, its pinned manifest existing, prints a
\* warning and exits with status 0 before the pinned manifest is parsed;
\* filter_and_validate_packages, its pinned manifest existing, prints a
\* warning and goes on: it reads the pinned manifest, writes its report and
\* exits with status 0.
C4_NoEnvFileMatched ==
  (Done /\ envFiles = << >>) =>
    /\ script = CheckEnv =>
         exitCode = 2 /\ ~Passed("ce_conda") /\ stderr # {}
    /\ (script = ValidatePackages /\ atStart.pinned # NoFile) =>
         /\ exitCode = 0 /\ ~Passed("vp_pinned")
         /\ Diag("Warning: No env-*.yml files found", << >>) \in stderr
    /\ (script = FilterAndValidate /\ atStart.pinned # NoFile) =>
         /\ exitCode = 0 /\ Passed("fv_read") /\ Passed("fv_log")
         /\ Diag("Warning: No env-*.yml files found", << >>) \in stderr

\* filter_and_validate_packages ran with no env file and a base environment,
\* read the pinned manifest and exited with status 0.
C4_Witness ==
  /\ Done /\ envFiles = << >> /\ script = FilterAndValidate
  /\ Passed("fv_read") /\ loc.required # {} /\ exitCode = 0

\* C4 (as stated): in check_env_ymls_conda_present, validate_packages and
\* filter_and_validate_packages, when no file matches the glob the process
\* exits with status 2 and has not read the ground-truth listing.
C4_ExitTwoBeforeGroundTruth ==
  (Done /\ envFiles = << >>
        /\ script \in {CheckEnv, ValidatePackages, FilterAndValidate}
        /\ ~MissingInput) =>
    /\ exitCode = 2
    /\ ~Passed("ce_conda") /\ ~Passed("vp_pinned") /\ ~Passed("fv_read")

\* C5: a process whose required input file is missing takes no step but the
\* check of its files: it prints the diagnostic and exits with status 1, and
\* the pinned manifest and build.log are as they were.
C5_MissingInputIsFatal ==
  (script # "none" /\ MissingInput) =>
    /\ pinned = atStart.pinned /\ buildLog = atStart.buildLog
    /\ stdout = << >>
    /\ \/ pc = FirstStep(script) /\ steps = << >>
       \/ /\ Done /\ steps = << FirstStep(script) >>
          /\ exitCode = 1
          /\ \E d \in stderr : d.msg = "Error: not found"

\* validate_r_packages found install.R but no packages-r-pinned.R, with a
\* build.log present, and exited with status 1.
C5_Witness ==
  /\ Done /\ script = ValidateR /\ installR # NoFile /\ pinnedR = NoFile
  /\ buildLog = OldLog /\ exitCode = 1

\* C10: no script reports a required package missing whose name differs from
\* a name of the ground truth only in letter case or in underscore versus
\* hyphen.
C10_NormalizedComparison ==
  Compared =>
    \A p \in MissingIn(Report) :
      \A g \in GroundTruthNames : NormalizeName(g) # NormalizeName(p)

(***************************************************************************)
(* Properties of the rewriting of the pinned manifest (SpecRewrite)        *)
(***************************************************************************)

\* The process has rewritten the pinned manifest.
Rewritten == Done /\ script = FilterAndValidate /\ Passed("fv_write")

\* The lines of the pinned manifest the process read, and of the one it
\* wrote.
InLines == FileLines(atStart.pinned)
OutLines == FileLines(pinned)

\* A line without its line break.
Chomp(line) == RStripChars(line, {"\n"})

\* The indices of the package lines of name n among lines.
LinesOf(lines, n) ==
  {i \in DOMAIN lines : IsPackageLine(lines[i]) /\ PinnedLineName(lines[i]) = n}

\* The titles and the sets of the four sections, in the order of the file.
SectionTitles == << TitleNotebook, TitleDask, TitleOther, TitleEnv >>
SectionSets == << loc.nb, loc.dask, loc.other, AllEnvPackages(loc.byFile) >>

\* The index of the title line of section k in lines, 0 when it is absent.
SectionStart(lines, k) ==
  LET at == {i \in DOMAIN lines : lines[i] = SectionTitles[k] \o <<"\n">>}
  IN IF at = {} THEN 0 ELSE CHOOSE i \in at : \A j \in at : i <= j

\* The package lines that follow the title of section k in lines.
SectionOf(lines, k) ==
  LET s == SectionStart(lines, k)
      stops == {j \in s + 1 .. Len(lines) + 1 : j = Len(lines) + 1 \/ ~IsPackageLine(lines[j])}
  IN IF s = 0 THEN << >>
     ELSE SubSeq(lines, s + 1, (CHOOSE j \in stops : \A m \in stops : j <= m) - 1)

\* Section k as it stands in lines: nothing, or a blank line, the title and
\* the package lines.
SectionBlock(lines, k) ==
  IF SectionStart(lines, k) = 0 THEN << >>
  ELSE << <<"\n">>, SectionTitles[k] \o <<"\n">> >> \o SectionOf(lines, k)

\* The written manifest is the retained header followed by the sections in
\* the fixed order, and nothing else.
LayoutHolds ==
  OutLines = loc.header_lines \o SectionBlock(OutLines, 1) \o SectionBlock(OutLines, 2)
               \o SectionBlock(OutLines, 3) \o SectionBlock(OutLines, 4)

\* Every package line of a section is a line of the input manifest, verbatim,
\* whose name is in the section's set.
SectionLinesVerbatim ==
  \A k \in 1 .. 4 :
    \A i \in DOMAIN SectionOf(OutLines, k) :
      LET line == SectionOf(OutLines, k)[i]
      IN /\ PinnedLineName(line) \in SectionSets[k]
         /\ \E j \in LinesOf(InLines, PinnedLineName(line)) : Chomp(InLines[j]) \o <<"\n">> = line

\* C6 (as amended): the written manifest is the retained header followed by
\* the sections in the fixed order pangeo-notebook, pangeo-dask, other base,
\* env files; every package line of a section is a verbatim line of the
\* input manifest whose name is in the section's set; every name of the set
\* that has a pinned line has exactly one line in the section, the last
\* pinned line of that name; the lines of a section are in ascending order
\* of package name.
C6_WrittenLayout ==
  Rewritten =>
    /\ LayoutHolds
    /\ SectionLinesVerbatim
    /\ \A k \in 1 .. 4 :
         LET sec == SectionOf(OutLines, k)
         IN /\ \A n \in SectionSets[k] :
                 LinesOf(InLines, n) # {} =>
                   /\ Cardinality(LinesOf(sec, n)) = 1
                   /\ \A i \in LinesOf(sec, n) :
                        sec[i] = Chomp(InLines[CHOOSE j \in LinesOf(InLines, n) :
                                                  \A m \in LinesOf(InLines, n) : m <= j])
                                   \o <<"\n">>
            /\ \A i, j \in DOMAIN sec :
                 i < j => StrLess(PinnedLineName(sec[i]), PinnedLineName(sec[j]))

\* A rewriting that wrote a section of two lines which the input manifest
\* held in the opposite order.
C6_Witness ==
  /\ Rewritten /\ loc.header_lines = << >>
  /\ \E k \in 1 .. 4 :
       /\ Len(SectionOf(OutLines, k)) = 2
       /\ Len(InLines) = 2
       /\ SectionOf(OutLines, k) = << InLines[2], InLines[1] >>

\* C6 (as stated): as above, but with every pinned line whose name is in the
\* section's set present in the section.
C6_EveryPinnedLineWritten ==
  Rewritten =>
    /\ LayoutHolds
    /\ SectionLinesVerbatim
    /\ \A k \in 1 .. 4 :
         LET sec == SectionOf(OutLines, k)
         IN /\ \A n \in SectionSets[k] :
                 \A j \in LinesOf(InLines, n) :
                   \E i \in DOMAIN sec : sec[i] = Chomp(InLines[j]) \o <<"\n">>
            /\ \A i, j \in DOMAIN sec :
                 i < j => ~StrLess(PinnedLineName(sec[j]), PinnedLineName(sec[i]))

\* The process of runs[i] rewrote the pinned manifest.
RunWrote(i) == "fv_write" \in Range(runs[i].steps)

\* The processes of runs[i] and runs[j] had the same required package sets.
SameSets(i, j) ==
  /\ runs[i].loc.nb = runs[j].loc.nb /\ runs[i].loc.dask = runs[j].loc.dask
  /\ runs[i].loc.other = runs[j].loc.other
  /\ AllEnvPackages(runs[i].loc.byFile) = AllEnvPackages(runs[j].loc.byFile)

\* C7: a second rewriting of the pinned manifest with the same required
\* package sets leaves the file of the first rewriting, byte for byte.
C7_RewriteIdempotent ==
  \A i, j \in DOMAIN runs :
    (i < j /\ RunWrote(i) /\ RunWrote(j) /\ SameSets(i, j)) =>
      runs[j].pinned = runs[i].pinned

\* The lines of the input manifest before its first package line.
Preamble ==
  LET pk == {i \in DOMAIN InLines : IsPackageLine(InLines[i])}
  IN IF pk = {} THEN InLines
     ELSE SubSeq(InLines, 1, (CHOOSE i \in pk : \A j \in pk : i <= j) - 1)

IsComment(line) == StartsWith(Strip(line), <<"#">>)
IsBlank(line) == Strip(line) = << >>

\* The line has one of the words of a section title, in any letter case.
HasSectionWord(line) ==
  \E w \in { <<"p","a","c","k","a","g","e","s"," ","f","r","o","m">>, <<"f","e","e","d","s","t","o","c","k">>, <<"e","n","v","i","r","o","n","m","e","n","t">> } : Contains(Lower(line), w)

\* The lines of the preamble that are kept as header.
KeptAsHeader(line) == (IsComment(line) \/ IsBlank(line)) /\ ~HasSectionWord(line)

\* a is b with some of its elements left out.
RECURSIVE IsSubSeq(_, _)
IsSubSeq(a, b) ==
  IF a = << >> THEN TRUE
  ELSE IF b = << >> THEN FALSE
  ELSE IF Head(a) = Head(b) THEN IsSubSeq(Tail(a), Tail(b))
  ELSE IsSubSeq(a, Tail(b))

\* C8 (as amended): the header read_pinned_packages keeps is made of the
\* comment lines and the blank lines that precede the first package line and
\* have none of the words 'packages from', 'feedstock', 'environment' (in any
\* letter case), in their order; it is written back unchanged at the top of
\* the rewritten manifest; no line that follows the first package line is
\* part of it.
C8_HeaderKept ==
  Rewritten =>
    /\ loc.header_lines = SelectSeq(Preamble, KeptAsHeader)
    /\ StartsWith(pinned, Concat(loc.header_lines))

\* A rewriting of a manifest whose preamble has a comment that is kept and a
\* comment with a section word that is not.
C8_Witness ==
  /\ Rewritten
  /\ \E i \in DOMAIN Preamble :
       /\ IsComment(Preamble[i]) /\ HasSectionWord(Preamble[i])
       /\ Preamble[i] \notin Range(loc.header_lines)
  /\ \E i \in DOMAIN Preamble :
       /\ IsComment(Preamble[i]) /\ ~HasSectionWord(Preamble[i])
       /\ Preamble[i] \in Range(loc.header_lines)
  /\ Len(InLines) > Len(Preamble)

\* C8 (as stated): every comment line that precedes the first package line
\* is kept as header and written back unchanged, in order, at the top of the
\* rewritten manifest, and no line that follows the first package line is
\* part of the header.
C8_EveryCommentKept ==
  Rewritten =>
    /\ SelectSeq(loc.header_lines, IsComment) = SelectSeq(Preamble, IsComment)
    /\ IsSubSeq(loc.header_lines, Preamble)
    /\ StartsWith(pinned, Concat(loc.header_lines))

(***************************************************************************)
(* Properties of extract_name (SpecExtract)                                *)
(***************************************************************************)

\* The name has neither the comment mark nor a quote.
PlainName(name) == \A i \in DOMAIN name : name[i] \notin {"#", "'", "\""}

\* C9 (as amended): for a dependency string name<op>version or
\* name<op>version=build, op one of ==, >=, <=, !=, ~=, =, >, <, whose name
\* has no operator character, no '#' and no quote, extract_name returns
\* normalize_name(name); for a string with no operator, no '#' and no quote
\* it returns normalize_name of the whole string.
C9_ExtractName ==
  (call.fn = "extract_name" /\ call.done /\ PlainName(call.arg.name)) =>
    call.result = NormalizeName(call.arg.name)

\* extract_name returned b- for B_~=1.0=cpu*.
C9_Witness ==
  /\ call.fn = "extract_name" /\ call.done
  /\ call.arg.op = <<"~","=">> /\ call.arg.build # << >>
  /\ call.arg.name = <<"B","_">>
  /\ call.result = <<"b","-">>

\* C9 (as stated): the same for every name with no operator character and
\* for every string with no operator.
C9_ExtractNameOfAnyName ==
  (call.fn = "extract_name" /\ call.done) =>
    call.result = NormalizeName(call.arg.name)

\* C11: normalize_name is idempotent, and gives the same result for two names
\* that differ only in letter case, in the blanks around them, or in
\* underscore versus hyphen.
C11_NormalizeIdempotent ==
  (call.fn = "normalize_name" /\ call.done) =>
    /\ call.result.again = call.result.first
    /\ call.result.other = call.result.first

\* normalize_name gave a- for ' \tA_' and for 'a-\n'.
C11_Witness ==
  /\ call.fn = "normalize_name" /\ call.done
  /\ call.arg.name = <<" ","\t","A","_">> /\ call.arg.other = <<"a","-","\n">>
  /\ call.result.first = <<"a","-">> /\ call.result.other = <<"a","-">>

\* The env files that are malformed, by index.
Malformed == {i \in DOMAIN envFiles : envFiles[i].doc.kind = "error"}

\* C12: when an env file is malformed, parse_env_files reports it to standard
\* error, the file contributes no package names, every other env file is
\* parsed and its packages are compared, and the run goes on to its report
\* and its exit status.
C12_MalformedEnvFileSkipped ==
  (Done /\ script \in {ValidatePackages, FilterAndValidate} /\ ~MissingInput
        /\ Malformed # {}) =>
    /\ \A i \in Malformed :
         /\ Diag("Error parsing", envFiles[i].name) \in stderr
         /\ \A k \in DOMAIN loc.byFile : loc.byFile[k].fname # envFiles[i].name
    /\ \A i \in DOMAIN envFiles \ Malformed :
         /\ \E k \in DOMAIN loc.byFile :
              /\ loc.byFile[k].fname = envFiles[i].name
              /\ loc.byFile[k].pkgs = EnvFilePackages(envFiles[i].doc)
         /\ EnvFilePackages(envFiles[i].doc) \subseteq loc.required
    /\ Compared /\ exitCode \in {0, 1}

\* The run could not fetch the feedstock recipe of package_name.
FetchFailed(package_name) == Diag("Warning: Could not fetch", package_name) \in stderr

\* C13: a call of fetch_pangeo_feedstock_dependencies requests its recipe
\* exactly once, whether the request fails or not; when it fails for
\* pangeo-notebook or pangeo-dask the call returns exactly the hardcoded set
\* of that package; and the run goes on to rewrite the manifest and to write
\* the log.
C13_FetchOnceThenFallback ==
  (Done /\ script = FilterAndValidate /\ Passed("fv_base") /\ BaseFetches(baseEnv)) =>
    /\ loc.fetched = << PangeoNotebook, PangeoDask >>
    /\ FetchFailed(PangeoNotebook) =>
         loc.nb = { <<"p","a","n","g","e","o","-","d","a","s","k">>, <<"d","a","s","k","-","l","a","b","e","x","t","e","n","s","i","o","n">>, <<"i","p","y","w","i","d","g","e","t","s">>,
                    <<"j","u","p","y","t","e","r","-","s","e","r","v","e","r","-","p","r","o","x","y">>, <<"j","u","p","y","t","e","r","h","u","b","-","s","i","n","g","l","e","u","s","e","r">>,
                    <<"j","u","p","y","t","e","r","l","a","b">>, <<"n","b","g","i","t","p","u","l","l","e","r">> }
    /\ FetchFailed(PangeoDask) =>
         loc.dask = { <<"d","a","s","k">>, <<"d","i","s","t","r","i","b","u","t","e","d">>, <<"d","a","s","k","-","g","a","t","e","w","a","y">> }
    /\ Passed("fv_write") /\ Passed("fv_log")
    /\ pinned = WriteFilteredPackages(loc.header_lines, loc.filtered.nb, loc.filtered.dask,
                                      loc.filtered.other, loc.filtered.env)
    /\ buildLog # NoLog

\* A run whose two fetches failed and which wrote the manifest and the log.
C13_Witness ==
  /\ Done /\ script = FilterAndValidate /\ BaseFetches(baseEnv)
  /\ FetchFailed(PangeoNotebook) /\ FetchFailed(PangeoDask)
  /\ Cardinality(loc.nb) = 7 /\ Cardinality(loc.dask) = 3
  /\ Passed("fv_log") /\ buildLog # NoLog /\ exitCode \in {0, 1}

\* The env files that declared pkg, and all the sources that declared it:
\* env files, the base environment (with its feedstocks), install.R and
\* install_geospatial.sh.
EnvSources(pkg) ==
  {loc.byFile[k].fname : k \in {j \in DOMAIN loc.byFile : pkg \in loc.byFile[j].pkgs}}
DeclaredBy(pkg) ==
  IF script = ValidateR
    THEN (IF pkg \in loc.installR THEN {InstallRSource} ELSE {})
         \cup (IF pkg \in loc.geospatial THEN {GeospatialSource} ELSE {})
  ELSE EnvSources(pkg)
       \cup (IF script = FilterAndValidate /\ pkg \in loc.nb \cup loc.dask \cup loc.other
               THEN {BaseSourceName} ELSE {})

\* The places of the missing packages in the report of the process.
MissingAt == {i \in DOMAIN Report : Report[i].tag = "missing"}

\* C14 as stated: the 'Found in:' line of each missing package of a failure
\* report names every source that declared the package, no other source,
\* and is never empty.
C14_FoundInEverySource ==
  (Compared /\ script # CheckEnv) =>
    \A i \in MissingAt :
      /\ i < Len(Report) /\ Report[i + 1].tag = "found_in"
      /\ Report[i + 1].names # << >>
      /\ Range(Report[i + 1].names) = DeclaredBy(Report[i].names[1])

\* C14: each missing package of a failure report is followed by its 'Found
\* in:' line, which is never empty, names no source twice and only sources
\* that declared the package; validate_packages names every env file that
\* declared it, validate_r_packages names install.R and
\* install_geospatial.sh as far as they declared it, and
\* filter_and_validate_packages names every env file that declared it, or
\* the base environment when no env file did.
C14_FoundIn ==
  (Compared /\ script # CheckEnv) =>
    \A i \in MissingAt :
      LET pkg == Report[i].names[1]
      IN /\ i < Len(Report) /\ Report[i + 1].tag = "found_in"
         /\ Report[i + 1].names # << >>
         /\ Cardinality(Range(Report[i + 1].names)) = Len(Report[i + 1].names)
         /\ Range(Report[i + 1].names) \subseteq DeclaredBy(pkg)
         /\ Range(Report[i + 1].names) =
              IF script = FilterAndValidate /\ EnvSources(pkg) = {}
                THEN {BaseSourceName} ELSE DeclaredBy(pkg) \ {BaseSourceName}

\* A filter report whose missing package b was declared by env-b.yml and by
\* the base environment and is found in env-b.yml only.
C14_Witness ==
  /\ Compared /\ script = FilterAndValidate
  /\ <<"b">> \in loc.other
  /\ \E i \in MissingAt :
       /\ Report[i].names = << <<"b">> >>
       /\ Report[i + 1].names = << <<"e","n","v","-","b",".","y","m","l">> >>

(***************************************************************************)
(* Properties of build.log over several runs (SpecLog)                     *)
(***************************************************************************)

\* The titles of the reports of a log, in order.
RECURSIVE TitlesOf(_)
TitlesOf(log) ==
  IF log = << >> \/ log = NoLog THEN << >>
  ELSE (IF Head(log).tag = "title" THEN << Head(log).label >> ELSE << >>)
       \o TitlesOf(Tail(log))

\* items is one whole report of the given title and kind.
OneReport(items, title, kind) ==
  /\ items # << >> /\ TitlesOf(items) = << title >>
  /\ items[1].tag = "title"
  /\ items[Len(items)] = LogItem("end", kind, 0, << >>)
  /\ Cardinality({i \in DOMAIN items : items[i].tag = "status"}) = 1

\* The content of a log, none when the file does not exist.
ContentOf(log) == IF log = NoLog THEN << >> ELSE log

\* The last run of the filter that wrote its log, 0 when there is none, and
\* whether every run after run j was a validate_r run that wrote its report.
RsAfter(j) ==
  \A m \in (j + 1)..Len(runs) :
    runs[m].script = ValidateR /\ "vr_log" \in Range(runs[m].steps)

\* C15: a filter run leaves build.log holding exactly one Python report; a
\* validate_r run leaves the content build.log had as a prefix and appends
\* exactly one R report; after a filter run followed by k validate_r runs
\* the log is the Python report followed by k R reports; and validate_r
\* leaves install.R and packages-r-pinned.R as they were.
C15_LogReplacedThenAppended ==
  Done =>
    /\ (script = FilterAndValidate /\ Passed("fv_log")) =>
         OneReport(buildLog, "Python Package Validation Report", "Python")
    /\ (script = ValidateR /\ Passed("vr_log")) =>
         LET old == ContentOf(atStart.buildLog)
         IN /\ Len(buildLog) > Len(old)
            /\ SubSeq(buildLog, 1, Len(old)) = old
            /\ OneReport(SubSeq(buildLog, Len(old) + 1, Len(buildLog)),
                         "R Package Validation Report", "R")
    /\ script = ValidateR =>
         installR = atStart.installR /\ pinnedR = atStart.pinnedR
    /\ \A j \in DOMAIN runs :
         (runs[j].script = FilterAndValidate /\ "fv_log" \in Range(runs[j].steps)
            /\ RsAfter(j)) =>
           /\ SubSeq(buildLog, 1, Len(runs[j].buildLog)) = runs[j].buildLog
           /\ TitlesOf(buildLog) =
                << "Python Package Validation Report" >>
                \o [m \in 1..(Len(runs) - j) |-> "R Package Validation Report"]

\* A filter run followed by two validate_r runs, on a log that an earlier
\* job had left.
C15_Witness ==
  /\ Done /\ Len(runs) = 3 /\ runs[1].script = FilterAndValidate /\ RsAfter(1)
  /\ "fv_log" \in Range(runs[1].steps)
  /\ Len(TitlesOf(buildLog)) = 3 /\ "old" \notin Range(TitlesOf(buildLog))

(***************************************************************************)
(* Properties of parse_install_geospatial_content (SpecExtract)            *)
(***************************************************************************)

\* A line of a script is a flag, a variable reference, an install2.r
\* command, or else a bare package name.
IsFlagLine(l) == StartsWith(Strip(l.text), <<"-">>)
IsVariableLine(l) == StartsWith(Strip(l.text), <<"$">>)
IsInstall2rLine(l) == Contains(l.text, <<"i","n","s","t","a","l","l","2",".","r">>)
IsNameLine(l) == ~IsFlagLine(l) /\ ~IsVariableLine(l) /\ ~IsInstall2rLine(l)

\* The lines are one install2.r invocation: the install2.r line, then flags,
\* variable references and package names, every line but the last ended by
\* a backslash.
OneInvocation(lines) ==
  /\ Len(lines) >= 2 /\ IsInstall2rLine(lines[1])
  /\ \A i \in 2..Len(lines) : ~IsInstall2rLine(lines[i])
  /\ \A i \in DOMAIN lines : lines[i].cont <=> i < Len(lines)

\* C16: of an install2.r invocation continued by backslashes whose
\* continuation lines are flags, variable references or single package
\* names, parse_install_geospatial_content returns exactly the package names:
\* no flag, no variable reference, and every package name.
C16_InvocationPackages ==
  (call.fn = "parse_install_geospatial_content" /\ call.done /\ OneInvocation(call.arg)) =>
    call.result = {Strip(call.arg[i].text) : i \in {j \in 2..Len(call.arg) : IsNameLine(call.arg[j])}}

\* Line i of the script continues an install2.r invocation: an install2.r
\* line precedes it and that line and every line between end with a
\* backslash.
Continues(lines, i) ==
  \E j \in 1..(i - 1) :
    IsInstall2rLine(lines[j]) /\ \A k \in j..(i - 1) : lines[k].cont

\* C17: the install2.r scanner adds a line as a package name only if the
\* line continues an install2.r invocation; a line after an install2.r
\* command that no backslash ends, or after a continuation line that no
\* backslash ends, is never added.
C17_OnlyContinuationLines ==
  (call.fn = "parse_install_geospatial_content" /\ call.done) =>
    \A p \in call.result :
      \E i \in DOMAIN call.arg :
        Strip(call.arg[i].text) = p /\ IsNameLine(call.arg[i]) /\ Continues(call.arg, i)

(***************************************************************************)
(* Properties of parse_conda_deps_only (SpecExtract)                       *)
(***************************************************************************)

\* Line i of the env file is under the top-level dependencies key: the last
\* top-level key before it is dependencies.
UnderDependencies(lines, i) ==
  \E j \in 1..(i - 1) :
    /\ lines[j].kind = "key" /\ lines[j].indent = 0 /\ lines[j].item = <<"d","e","p","e","n","d","e","n","c","i","e","s">>
    /\ \A k \in (j + 1)..(i - 1) : ~(lines[k].kind = "key" /\ lines[k].indent = 0)

\* Line i is nested under the '- pip:' line j: it is indented deeper, and
\* no top-level key and no entry indented as the '- pip:' line or less lies
\* between them.
NestedUnderPip(lines, i) ==
  \E j \in 1..(i - 1) :
    /\ lines[j].kind = "pip" /\ lines[i].indent > lines[j].indent
    /\ \A k \in (j + 1)..(i - 1) :
         /\ ~(lines[k].kind = "key" /\ lines[k].indent = 0)
         /\ lines[k].kind = "key" \/ lines[k].indent > lines[j].indent

\* The name of the package of a '- item' line, the version constraint and
\* the comment left out, normalized.
ItemName(l) == NormalizeName(Before(l.item, {"=", "<", ">", "!", "~", "#"}))

\* C18: parse_conda_deps_only returns exactly the normalized names of the
\* '- item' lines under the top-level dependencies key that are not nested
\* under a '- pip:' line, pip itself left out: no entry of a pip block, every
\* entry after the pip block at the indentation of '- pip:' or less, and no
\* entry under another top-level key.
C18_CondaDepsOnly ==
  (call.fn = "parse_conda_deps_only" /\ call.done) =>
    call.result =
      {ItemName(call.arg[i]) :
         i \in {j \in DOMAIN call.arg :
                  /\ call.arg[j].kind = "item"
                  /\ UnderDependencies(call.arg, j)
                  /\ ~NestedUnderPip(call.arg, j)}} \ { <<"p","i","p">> }

(***************************************************************************)
(* Properties of the recipe scan (SpecExtract)                             *)
(***************************************************************************)

\* Line j of the recipe is the 'run:' key inside 'requirements:'.
IsRunKey(lines, j) ==
  /\ lines[j].kind = "key" /\ lines[j].item = <<"r","u","n">> /\ lines[j].indent > 0
  /\ \E r \in 1..(j - 1) :
       /\ lines[r].kind = "key" /\ lines[r].indent = 0 /\ lines[r].item = <<"r","e","q","u","i","r","e","m","e","n","t","s">>
       /\ \A k \in (r + 1)..(j - 1) : ~(lines[k].kind = "key" /\ lines[k].indent = 0)

\* Line i is in the run section: a 'run:' key inside 'requirements:'
\* precedes it and no section header, top-level or at the indentation of
\* 'run:', lies between them.
InRunSection(lines, i) ==
  \E j \in 1..(i - 1) :
    /\ IsRunKey(lines, j)
    /\ \A k \in (j + 1)..(i - 1) :
         ~(lines[k].kind = "key" /\ lines[k].indent <= lines[j].indent)

\* C19: the scan of a feedstock recipe returns exactly the names of the
\* '- ' entries of the requirements: run: section, those that start with
\* '{' left out; the section ends at the next section header, a top-level
\* key or a subsection at the indentation of run:, and no entry of a later
\* section is returned.
C19_RunSectionOnly ==
  (call.fn = "fetch_pangeo_feedstock_dependencies" /\ call.done) =>
    call.result =
      {Before(call.arg[i].item, {" ", ">", "=", "<", "~", "!"}) :
         i \in {j \in DOMAIN call.arg :
                  /\ call.arg[j].kind = "entry" /\ call.arg[j].item[1] # "{"
                  /\ InRunSection(call.arg, j)}}

(***************************************************************************)
(* Properties of consecutive rewritings (SpecRewrite)                      *)
(***************************************************************************)

\* The package names of a manifest, and the literal package lines it has
\* for the name n.
PackageNames(text) ==
  {PinnedLineName(FileLines(text)[i]) :
     i \in {j \in DOMAIN FileLines(text) : IsPackageLine(FileLines(text)[j])}} \ { << >> }
LinesFor(text, n) ==
  {Chomp(FileLines(text)[i]) : i \in LinesOf(FileLines(text), n)}

\* The run that has just ended is not the first one, and had the same
\* required package sets as the one before it.
Repeated ==
  /\ Rewritten /\ Len(runs) >= 2
  /\ RunWrote(Len(runs) - 1) /\ SameSets(Len(runs) - 1, Len(runs))

\* C20: over consecutive runs of filter_and_validate_packages the manifest
\* never gains a package: the names after a run are among the names before
\* it; and when the required package sets do not change, from the first run
\* on the names and the literal line of each name stay as they are and
\* every run reports the same missing set.
C20_NeverGainsPackage ==
  /\ Rewritten => PackageNames(pinned) \subseteq PackageNames(atStart.pinned)
  /\ Repeated =>
       /\ PackageNames(pinned) = PackageNames(atStart.pinned)
       /\ \A n \in PackageNames(pinned) :
            LinesFor(pinned, n) = LinesFor(atStart.pinned, n) /\ Cardinality(LinesFor(pinned, n)) = 1
       /\ MissingIn(LastReport(buildLog)) = MissingIn(LastReport(runs[Len(runs) - 1].buildLog))
       /\ loc.missing = runs[Len(runs) - 1].loc.missing

\* A second run with the same sets: the first run dropped the pin of b,
\* which no set requires, both runs kept the pin of a, and both report the
\* same missing package.
C20_Witness ==
  /\ Repeated /\ Len(runs) = 2
  /\ <<"b">> \in DOMAIN runs[1].loc.packages
  /\ <<"b">> \notin PackageNames(runs[1].pinned)
  /\ LinesFor(pinned, <<"a">>) = { <<"a","=","2">> }
  /\ loc.missing # {} /\ loc.missing = runs[1].loc.missing

(***************************************************************************)
(* Properties of the figures of the Python report (Spec)                   *)
(***************************************************************************)

\* The figure the last report of build.log gives under a label.
Figure(label) ==
  LET r == LastReport(buildLog)
  IN r[CHOOSE i \in DOMAIN r : r[i].tag = "count" /\ r[i].label = label].n

\* The package lines of the rewritten manifest, by index.
WrittenLines == {i \in DOMAIN OutLines : IsPackageLine(OutLines[i])}

\* C21: each pinned package line is written once to the rewritten manifest,
\* in one section, so that the number of package lines of the file is the
\* figure 'Total packages in filtered packages-python-pinned.yaml' of
\* build.log; and the figure 'Total packages from py-rocket-base' is the
\* number of distinct base packages.
C21_LinesWrittenOnce ==
  (Rewritten /\ Passed("fv_log")) =>
    /\ \A i, j \in WrittenLines : OutLines[i] = OutLines[j] => i = j
    /\ Cardinality(WrittenLines) =
         Figure("Total packages in filtered packages-python-pinned.yaml")
    /\ Figure("Total packages from py-rocket-base") =
         Cardinality(loc.nb \cup loc.dask \cup loc.other)
====
